---------------------------- MODULE Spec2Model ----------------------------
(***************************************************************************)
(* Model of the shield tester's search engine: ShieldTester.compute() with *)
(* its worker pool, ShieldTester.cancel(), TestCase.test_case() and        *)
(* ShieldBoosterVariant.calculate_booster_bonuses().                       *)
(*                                                                         *)
(* Numbers.  The program computes with floats; the model computes with     *)
(* integers in fixed units, chosen so that every operation the program     *)
(* performs on the model's data is exact:                                  *)
(*   damage_effectiveness                  in units of 1/EffUnit           *)
(*   explres, kinres, thermres, *_res_bonus in units of 1/ResUnit          *)
(*   exp/kin/therm_modifier                in units of 1/ModUnit           *)
(*   regen                                 in units of 1/(ResUnit*ModUnit) *)
(*   actual_dps, incoming_dps, lowest_dps  in units of 1/DpsUnit           *)
(*   shield_strength_bonus, hp, hitpoints  in units of 1/HpUnit            *)
(*   survival_time                         a fraction <<num, den>>, den > 0*)
(***************************************************************************)
EXTENDS Integers, Sequences, FiniteSets, TLC

---------------------------------------------------------------------------
(* Fixed-point units (the float 1.0 of each quantity).                     *)
EffUnit == 2
ResUnit == 2
ModUnit == 160
HpUnit == 4
DpsUnit == EffUnit * ResUnit * ModUnit

(* Program constants.                                                      *)
CALLBACK_MESSAGE == 1
CALLBACK_STEP == 2
CALLBACK_CANCELLED == 3
\* rel_tol=1e-8 of math.isclose, as the denominator 1/rel_tol
RelTolInv == 100000000
\* 0.7, the diminishing-returns threshold
DimThreshold == (7 * ModUnit) \div 10

(* Bounds of the model.                                                    *)
\* ShieldTester.MP_CHUNK_SIZE is 10000 in the program; the model scales it
\* down so that a handful of booster combinations already make several chunks.
MP_CHUNK_SIZE == 2
\* largest number_of_boosters_to_test and largest number of utility slots
MaxBoosters == 2
\* os.cpu_count(), the largest value of cpu_cores
MaxCores == 3
\* largest prelim argument
MaxPrelim == 3

---------------------------------------------------------------------------
(* Helpers.                                                                *)
Abs(x) == IF x < 0 THEN -x ELSE x
Max(a, b) == IF a >= b THEN a ELSE b
Min(a, b) == IF a <= b THEN a ELSE b

\* math.isclose(a, b, rel_tol=1e-8): abs(a-b) <= rel_tol * max(abs(a), abs(b)).
\* For integers d, m:  d <= m / RelTolInv  iff  d <= m \div RelTolInv.
IsClose(a, b) == Abs(a - b) <= Max(Abs(a), Abs(b)) \div RelTolInv

\* Fractions <<num, den>> with den > 0.
Frac(n, d) == IF d < 0 THEN <<-n, -d>> ELSE <<n, d>>
FracZero == <<0, 1>>
FracNeg(a) == a[1] < 0
FracGt(a, b) == a[1] * b[2] > b[1] * a[2]
FracGe(a, b) == a[1] * b[2] >= b[1] * a[2]

---------------------------------------------------------------------------
(* ShieldBoosterVariant.calculate_booster_bonuses                          *)

\* "if x_modifier < 0.7: x_modifier = 0.7 - (0.7 - x_modifier) / 2"
Compensate(p) == IF p < DimThreshold THEN DimThreshold - (DimThreshold - p) \div 2 ELSE p

RECURSIVE BonusLoop(_, _, _)
\* the loop "for booster in boosters", acc = the four running values
BonusLoop(acc, boosters, i) ==
    IF i > Len(boosters) THEN acc
    ELSE BonusLoop([exp   |-> (acc.exp * boosters[i].exp_res_bonus) \div ResUnit,
                    kin   |-> (acc.kin * boosters[i].kin_res_bonus) \div ResUnit,
                    therm |-> (acc.therm * boosters[i].therm_res_bonus) \div ResUnit,
                    hp    |-> acc.hp + boosters[i].shield_strength_bonus],
                   boosters, i + 1)

calculate_booster_bonuses(boosters) ==
    LET r == BonusLoop([exp |-> ModUnit, kin |-> ModUnit, therm |-> ModUnit, hp |-> HpUnit],
                       boosters, 1)
    IN [exp   |-> Compensate(r.exp),
        kin   |-> Compensate(r.kin),
        therm |-> Compensate(r.therm),
        hp    |-> r.hp]

---------------------------------------------------------------------------
(* itertools.combinations_with_replacement(range(0, n), k), in its order,  *)
(* and chunks(l, n).                                                       *)

RECURSIVE Prepend(_, _, _)
Prepend(x, seqs, i) ==
    IF i > Len(seqs) THEN <<>> ELSE <<(<<x>> \o seqs[i])>> \o Prepend(x, seqs, i + 1)

RECURSIVE CombinationsFrom(_, _, _)
\* the non-decreasing k-tuples over lo..n-1, lexicographically
CombinationsFrom(lo, n, k) ==
    IF k = 0 THEN << <<>> >>
    ELSE IF lo >= n THEN <<>>
    ELSE Prepend(lo, CombinationsFrom(lo, n, k - 1), 1) \o CombinationsFrom(lo + 1, n, k)

\* the combinations over range(1, n) instead of range(0, n)
combinations_from_one(n, k) == CombinationsFrom(1, n, k)

combinations_with_replacement(n, k) == CombinationsFrom(0, n, k)

\* number of chunks of "chunks(l, n)": range(0, len(l), n)
NumChunks(l, n) == (Len(l) + n - 1) \div n
\* the j-th chunk (j = 1..NumChunks): l[(j-1)*n : (j-1)*n + n]
Chunk(l, n, j) == SubSeq(l, (j - 1) * n + 1, Min(Len(l), j * n))

---------------------------------------------------------------------------
(* TestResult and TestCase.test_case                                       *)

NoLoadout == [name |-> "None", explres |-> 0, kinres |-> 0, thermres |-> 0,
              regen |-> 0, shield_strength |-> 0]

\* TestResult(loadout, survival_time, incoming_dps, total_hitpoints); the
\* boosters attached to the copied loadout are the field boosters.
TestResult(loadout, boosters, survival_time, incoming_dps, total_hitpoints) ==
    [loadout |-> loadout, boosters |-> boosters, survival_time |-> survival_time,
     incoming_dps |-> incoming_dps, total_hitpoints |-> total_hitpoints]

\* TestResult(survival_time=0)
EmptyResult == TestResult(NoLoadout, <<>>, FracZero, 0, 0)

\* actual_dps of one loadout under modifiers m (lines 86-96 of TestCase.py)
ActualDps(tc, loadout, m) ==
    LET exp_res   == (ResUnit - loadout.explres) * m.exp
        kin_res   == (ResUnit - loadout.kinres) * m.kin
        therm_res == (ResUnit - loadout.thermres) * m.therm
        regen_rate == loadout.regen * (EffUnit - tc.damage_effectiveness)
    IN tc.damage_effectiveness * (tc.explosive_dps * exp_res
                                  + tc.kinetic_dps * kin_res
                                  + tc.thermal_dps * therm_res
                                  + tc.absolute_dps * ResUnit * ModUnit) - regen_rate

\* hp = loadout.shield_strength * hitpoint_bonus
Hitpoints(loadout, m) == loadout.shield_strength * m.hp

\* survival_time = (hp + scb_hitpoints + guardian_hitpoints) / actual_dps, dps # 0
SurvivalTime(tc, hp, dps) ==
    Frac((DpsUnit \div HpUnit) * (hp + HpUnit * tc.scb_hitpoints + HpUnit * tc.guardian_hitpoints), dps)

\* The state of test_case's loop: the five "best_*" locals and whether the
\* division raised.
LoopInit == [best_survival_time |-> FracZero,
             \* lowest_dps = 10000
             lowest_dps |-> 10000 * DpsUnit,
             best_loadout |-> NoLoadout, chosen |-> FALSE,
             best_shield_booster_loadout |-> <<>>, best_hitpoints |-> 0,
             error |-> "none"]

\* one pass of the inner loop body (lines 86-113) for one loadout
CandidateStep(tc, acc, boosters, m, loadout) ==
    LET dps == ActualDps(tc, loadout, m)
        hp  == Hitpoints(loadout, m)
    IN IF acc.error # "none" THEN acc
       ELSE IF dps = 0 THEN [acc EXCEPT !.error = "ZeroDivisionError"]
       ELSE LET survival_time == SurvivalTime(tc, hp, dps)
            IN IF dps > 0 /\ ~FracNeg(acc.best_survival_time)
               THEN IF FracGt(survival_time, acc.best_survival_time)
                    THEN [acc EXCEPT !.best_loadout = loadout, !.chosen = TRUE,
                                     !.best_shield_booster_loadout = boosters,
                                     !.best_survival_time = survival_time,
                                     !.best_hitpoints = hp]
                    ELSE acc
               ELSE IF dps <= 0
                    THEN IF acc.lowest_dps > dps
                            \/ (IsClose(acc.lowest_dps, dps) /\ acc.best_hitpoints < hp)
                         THEN [acc EXCEPT !.best_loadout = loadout, !.chosen = TRUE,
                                          !.best_shield_booster_loadout = boosters,
                                          !.best_survival_time = survival_time,
                                          !.lowest_dps = dps, !.best_hitpoints = hp]
                         ELSE acc
                    ELSE acc

RECURSIVE LoadoutLoop(_, _, _, _, _)
\* "for loadout in test_case.loadout_list"
LoadoutLoop(tc, acc, boosters, m, i) ==
    IF i > Len(tc.loadout_list) THEN acc
    ELSE LoadoutLoop(tc, CandidateStep(tc, acc, boosters, m, tc.loadout_list[i]),
                     boosters, m, i + 1)

\* boosters = [test_case.shield_booster_variants[x] for x in booster_combination]
BoostersOf(tc, booster_combination) ==
    [i \in 1..Len(booster_combination) |->
        tc.shield_booster_variants[booster_combination[i] + 1]]

RECURSIVE CombinationLoop(_, _, _, _)
\* "for booster_combination in booster_combinations"
CombinationLoop(tc, acc, booster_combinations, j) ==
    IF j > Len(booster_combinations) THEN acc
    ELSE LET boosters == BoostersOf(tc, booster_combinations[j])
             m == calculate_booster_bonuses(boosters)
         IN CombinationLoop(tc, LoadoutLoop(tc, acc, boosters, m, 1),
                            booster_combinations, j + 1)

\* TestCase.test_case(test_case, booster_combinations): what the call yields,
\* [kind |-> "result", result |-> TestResult] or [kind |-> "raise", ...].
test_case_fn(tc, booster_combinations) ==
    LET acc == CombinationLoop(tc, LoopInit, booster_combinations, 1)
    IN IF acc.error # "none"
       THEN [kind |-> "raise", error |-> acc.error, result |-> EmptyResult]
       ELSE IF ~acc.chosen
       \* copy.deepcopy(0).boosters = ...
       THEN [kind |-> "raise", error |-> "AttributeError", result |-> EmptyResult]
       ELSE [kind |-> "result", error |-> "none",
             result |-> TestResult(acc.best_loadout, acc.best_shield_booster_loadout,
                                   acc.best_survival_time, acc.lowest_dps,
                                   acc.best_hitpoints)]

\* the values of the attribute boosters: None, or a list of boosters
None == [is_none |-> TRUE, list |-> <<>>]

\* The LoadOut objects of a loadout_list, as LoadOut.__init__ leaves them: the
\* attribute boosters is None. An object's address is its index.
NewObjects(loadout_list) ==
    [i \in 1..Len(loadout_list) |-> [loadout |-> loadout_list[i], boosters |-> None]]

\* the reference itself, no copy made
SameObject(objects, ref) == [objects |-> objects, ref |-> ref]

\* copy.deepcopy(best_loadout): a new object of equal content, at a new address
deepcopy(objects, ref) == [objects |-> Append(objects, objects[ref]), ref |-> Len(objects) + 1]

\* The request's LoadOut objects after TestCase.test_case(tc, booster_combinations):
\* lines 116-117 copy the best loadout and assign the copy's attribute boosters.
\* When the loop raised, or best_loadout is still 0, nothing was assigned.
ObjectsAfterTestCase(objects, tc, booster_combinations) ==
    LET acc == CombinationLoop(tc, LoopInit, booster_combinations, 1)
    IN IF acc.error # "none" \/ ~acc.chosen THEN objects
       ELSE LET ref  == CHOOSE i \in 1..Len(objects) : objects[i].loadout = acc.best_loadout
                copy == deepcopy(objects, ref)
                assigned == [copy.objects EXCEPT
                                 ![copy.ref].boosters = [is_none |-> FALSE, list |-> acc.best_shield_booster_loadout]]
            IN SubSeq(assigned, 1, Len(objects))

---------------------------------------------------------------------------
(* apply_async_callback: the coordinator's fold of one chunk result.       *)

apply_async_callback(best_result, r) ==
    IF FracNeg(best_result.survival_time)
    THEN IF best_result.incoming_dps > r.incoming_dps
            \/ (IsClose(best_result.incoming_dps, r.incoming_dps)
                /\ best_result.total_hitpoints < r.total_hitpoints)
         THEN r ELSE best_result
    ELSE IF FracNeg(r.survival_time) THEN r
         ELSE IF FracGt(r.survival_time, best_result.survival_time) THEN r
         ELSE best_result


---------------------------------------------------------------------------
(* Preliminary filtering (ShieldTester.compute, lines 254-295).            *)

\* unity modifiers: the pre-filter applies no booster
Unity == [exp |-> ModUnit, kin |-> ModUnit, therm |-> ModUnit, hp |-> HpUnit]

RECURSIVE InsertAscending(_, _, _)
\* list.sort(key=tup[0]) is stable: x goes after every element with key <= its key
InsertAscending(sorted, x, i) ==
    IF i > Len(sorted) THEN Append(sorted, x)
    ELSE IF sorted[i].key > x.key
         THEN SubSeq(sorted, 1, i - 1) \o <<x>> \o SubSeq(sorted, i, Len(sorted))
         ELSE InsertAscending(sorted, x, i + 1)

RECURSIVE SortSurvived(_, _)
SortSurvived(l, n) ==
    IF n = 0 THEN <<>> ELSE InsertAscending(SortSurvived(l, n - 1), l[n], 1)

RECURSIVE InsertDescending(_, _, _)
\* list.sort(key=tup[0], reverse=True) is stable as well: x goes after every
\* element with key >= its key
InsertDescending(sorted, x, i) ==
    IF i > Len(sorted) THEN Append(sorted, x)
    ELSE IF FracGt(x.key, sorted[i].key)
         THEN SubSeq(sorted, 1, i - 1) \o <<x>> \o SubSeq(sorted, i, Len(sorted))
         ELSE InsertDescending(sorted, x, i + 1)

\* the list left in the order of the loop, without the sort
Unsorted(l, n) == l

RECURSIVE SortDying(_, _)
SortDying(l, n) ==
    IF n = 0 THEN <<>> ELSE InsertDescending(SortDying(l, n - 1), l[n], 1)

\* t[1] of the first prelim tuples: [t[1] for t in l[:prelim]]
FirstLoadouts(l, prelim) == [i \in 1..Min(prelim, Len(l)) |-> l[i].loadout]

RECURSIVE PrelimLoop(_, _, _)
\* "for loadout in test_case.loadout_list" of the pre-filter; acc holds the two
\* lists, the number of loadouts evaluated and whether the division raised
PrelimLoop(tc, acc, i) ==
    IF i > Len(tc.loadout_list) \/ acc.error # "none" THEN acc
    ELSE LET loadout == tc.loadout_list[i]
             dps == ActualDps(tc, loadout, Unity)
             hp  == Hitpoints(loadout, Unity)
         IN PrelimLoop(tc,
              IF dps = 0
              THEN [acc EXCEPT !.error = "ZeroDivisionError", !.evals = @ + 1]
              ELSE IF dps > 0
              THEN [acc EXCEPT !.preliminary_list =
                                   Append(@, [key |-> SurvivalTime(tc, hp, dps), loadout |-> loadout]),
                               !.evals = @ + 1]
              ELSE [acc EXCEPT !.preliminary_list_survived =
                                   Append(@, [key |-> dps, loadout |-> loadout]),
                               !.evals = @ + 1],
              i + 1)

\* "prelim > 0 and prelim != len(test_case.loadout_list)"
PrelimApplies(tc, prelim) == prelim > 0 /\ prelim # Len(tc.loadout_list)

\* the pre-filter: the new loadout_list, the number of loadouts evaluated and
\* the error raised, if any
PreFilter(tc, prelim) ==
    IF ~PrelimApplies(tc, prelim)
    THEN [loadout_list |-> tc.loadout_list, evals |-> 0, error |-> "none"]
    ELSE LET acc == PrelimLoop(tc, [preliminary_list |-> <<>>, preliminary_list_survived |-> <<>>,
                                    evals |-> 0, error |-> "none"], 1)
         IN IF acc.error # "none"
            THEN [loadout_list |-> tc.loadout_list, evals |-> acc.evals, error |-> acc.error]
            ELSE IF Len(acc.preliminary_list_survived) > 0
            THEN [loadout_list |-> FirstLoadouts(SortSurvived(acc.preliminary_list_survived,
                                                              Len(acc.preliminary_list_survived)), prelim),
                  evals |-> acc.evals, error |-> "none"]
            ELSE [loadout_list |-> FirstLoadouts(SortDying(acc.preliminary_list,
                                                           Len(acc.preliminary_list)), prelim),
                  evals |-> acc.evals, error |-> "none"]


---------------------------------------------------------------------------
(* The state.                                                              *)

VARIABLES
    test_case,            \* the TestCase handed to compute()
    unset,                \* which of test_case and its two lists are None
    callback,             \* whether a callback was supplied
    message_queue,        \* whether a message queue was supplied
    prelim,               \* the prelim argument
    cpu_cores,            \* ShieldTester.__cpu_cores
    cancel_flag,          \* ShieldTester.__cancel
    pool_ref,             \* ShieldTester.__pool: "None" or "pool"
    pool_state,           \* the pool's _state: "none" (not created), RUN, CLOSE, TERMINATE
    taskqueue,            \* chunks handed to apply_async and not yet evaluated
    outqueue,             \* chunk results awaiting the pool's result handler
    pc,                   \* where compute() stands
    booster_combinations, \* compute's local of that name
    next_chunk,           \* the chunk the dispatch loop is at (1-based)
    best_result,          \* compute's local of that name
    ret,                  \* what compute() gave its caller
    cpc,                  \* where cancel() stands
    cb_log,               \* the codes the callback was invoked with, in order
    mq,                   \* the messages put on the message queue, in order
    prelim_evals,         \* loadouts the pre-filter evaluated
    evaluated,            \* chunks TestCase.test_case was run on
    failed,               \* chunks whose evaluation raised
    folded,               \* chunks folded by apply_async_callback, in fold order
    cancel_at,            \* where compute() stood when cancel() set the flag
    call,                 \* the last call of one of the pure operations, and its outcome
    tester,               \* the ShieldTester's loaded data and the loadouts built from it
    context               \* which thread made each callback invocation, whether another
                          \* invocation was in progress then, which threads used best_result,
                          \* the loadout_list the test case was given before compute(),
                          \* the LoadOut objects of that list (their boosters attribute),
                          \* and the number of worker processes of the pool

vars == <<test_case, unset, callback, message_queue, prelim, cpu_cores, cancel_flag,
          pool_ref, pool_state, taskqueue, outqueue, pc, booster_combinations,
          next_chunk, best_result, ret, cpc, cb_log, mq, prelim_evals, evaluated,
          failed, folded, cancel_at, call, tester, context>>

\* what no step of compute() and cancel() touches
inputs == <<unset, callback, message_queue, prelim, cpu_cores, call, tester>>

\* what the search reads and writes
search == <<test_case, unset, callback, message_queue, prelim, cpu_cores, cancel_flag,
            pool_ref, pool_state, taskqueue, outqueue, pc, booster_combinations,
            next_chunk, best_result, ret, cpc, cb_log, mq, prelim_evals, evaluated,
            failed, folded, cancel_at, context>>

---------------------------------------------------------------------------
(* The inputs the model draws from.                                        *)

Generator(name, explres, kinres, thermres, regen, shield_strength) ==
    [name |-> name, explres |-> explres, kinres |-> kinres, thermres |-> thermres,
     regen |-> regen, shield_strength |-> shield_strength]

\* two ordinary generators, and two whose regen differs by 2.5e-9 of it, which
\* is within the 1e-8 of the comparison
GenA == Generator("A", 0, 0, 0, 320, 10)
GenB == Generator("B", 1, 1, 0, 320, 8)
GenD == Generator("D", 0, 0, 0, 399999999, 12)

LoadoutLists ==
    LET GenC == Generator("C", 0, 0, 0, 400000000, 10)
    IN { <<>>, <<GenA>>, <<GenA, GenB>>, <<GenC, GenD>>, <<GenB, GenA, GenD>> }

Booster(name, exp_res_bonus, kin_res_bonus, therm_res_bonus, shield_strength_bonus) ==
    [name |-> name, exp_res_bonus |-> exp_res_bonus, kin_res_bonus |-> kin_res_bonus,
     therm_res_bonus |-> therm_res_bonus, shield_strength_bonus |-> shield_strength_bonus]

\* heavy duty (+50% strength), resistance augmented (halves all three damage
\* types), thermal resistant (halves thermal, +25% strength)
BoosterLists ==
    LET BoosterHD == Booster("HD", 2, 2, 2, 2)
        BoosterRA == Booster("RA", 1, 1, 1, 0)
        BoosterTR == Booster("TR", 2, 2, 1, 1)
    IN { <<>>, <<BoosterRA>>, <<BoosterHD, BoosterRA, BoosterTR>> }

Profile(damage_effectiveness, explosive_dps, kinetic_dps, thermal_dps, absolute_dps, scb_hitpoints, guardian_hitpoints) ==
    [damage_effectiveness |-> damage_effectiveness, explosive_dps |-> explosive_dps,
     kinetic_dps |-> kinetic_dps, thermal_dps |-> thermal_dps, absolute_dps |-> absolute_dps,
     scb_hitpoints |-> scb_hitpoints, guardian_hitpoints |-> guardian_hitpoints]

\* TestCase.__init__'s defaults (no damage: nothing dies); 100% effective mixed
\* damage (regen is switched off: everything dies); 50% effective explosive
\* damage (some loadouts die, some do not, some balance exactly)
Profiles == { Profile(0, 0, 0, 0, 0, 0, 0),
              Profile(2, 2, 1, 1, 1, 5, 0),
              Profile(1, 2, 0, 0, 0, 0, 0) }

MakeTestCase(p, boosters, loadouts, number_of_boosters_to_test, utility_slots) ==
    [ship |-> [utility_slots |-> utility_slots],
     damage_effectiveness |-> p.damage_effectiveness,
     explosive_dps |-> p.explosive_dps, kinetic_dps |-> p.kinetic_dps,
     thermal_dps |-> p.thermal_dps, absolute_dps |-> p.absolute_dps,
     scb_hitpoints |-> p.scb_hitpoints, guardian_hitpoints |-> p.guardian_hitpoints,
     shield_booster_variants |-> boosters, loadout_list |-> loadouts,
     number_of_boosters_to_test |-> number_of_boosters_to_test]

\* the cpu_cores setter: self.__cpu_cores = max(1, min(os.cpu_count(), abs(value)))
cpu_cores_setter(value) == Max(1, Min(MaxCores, Abs(value)))

NotCancelled == [pc |-> "never", dispatched |-> 0]


\* ShieldTester.__init__: no data loaded, no loadout built
NewTester == [load_data |-> "not called", shield_generators |-> <<>>,
              create_loadouts |-> [kind |-> "not called"]]

Init ==
    /\ \E p \in Profiles, b \in BoosterLists, l \in LoadoutLists,
          n \in (-1)..MaxBoosters, u \in {MaxBoosters - 1, MaxBoosters} :
          test_case = MakeTestCase(p, b, l, n, u)
    /\ unset \in { {}, {"test_case"}, {"shield_booster_variants"}, {"loadout_list"} }
    \* a test case or a list that is None holds nothing
    /\ "test_case" \in unset =>
           test_case = MakeTestCase(Profile(0, 0, 0, 0, 0, 0, 0), <<>>, <<>>, 0, MaxBoosters)
    /\ "shield_booster_variants" \in unset => test_case.shield_booster_variants = <<>>
    /\ "loadout_list" \in unset => test_case.loadout_list = <<>>
    /\ callback \in BOOLEAN
    /\ message_queue \in BOOLEAN
    /\ prelim \in 0..MaxPrelim
    \* the values assigned to cpu_cores: none (__init__'s os.cpu_count()), 0, a
    \* negative one, one and more than the machine has
    /\ cpu_cores \in { cpu_cores_setter(value) :
                         value \in {MaxCores, 0, -1, 1, MaxCores + 1, -(MaxCores + 1)} }
    /\ cancel_flag = FALSE
    /\ pool_ref = "None"
    /\ pool_state = "none"
    /\ taskqueue = <<>>
    /\ outqueue = <<>>
    /\ pc = "idle"
    /\ booster_combinations = <<>>
    /\ next_chunk = 1
    /\ best_result = EmptyResult
    /\ ret = [kind |-> "pending", why |-> "pending"]
    /\ cpc = "idle"
    /\ cb_log = <<>>
    /\ mq = <<>>
    /\ prelim_evals = 0
    /\ evaluated = {}
    /\ failed = {}
    /\ folded = <<>>
    /\ cancel_at = NotCancelled
    /\ call = [op |-> "none"]
    /\ tester = NewTester
    /\ context = [callbacks |-> <<>>, best_result_used_by |-> {},
                  loadout_list_set |-> test_case.loadout_list,
                  loadout_objects |-> NewObjects(test_case.loadout_list),
                  pool_processes |-> 0]


---------------------------------------------------------------------------
(* ShieldTester.compute                                                    *)

\* the test of line 231 without its last clause, "not test_case.loadout_list"
NothingToTestIgnoringLoadouts ==
    \/ "test_case" \in unset
    \/ "shield_booster_variants" \in unset
    \/ test_case.shield_booster_variants = <<>>

\* "not test_case or not test_case.shield_booster_variants or not test_case.loadout_list"
NothingToTest ==
    \/ "test_case" \in unset
    \/ "shield_booster_variants" \in unset
    \/ test_case.shield_booster_variants = <<>>
    \/ "loadout_list" \in unset
    \/ test_case.loadout_list = <<>>

\* "if self.__cancel:" as compute() reads it
CancelObserved == cancel_flag

\* "if callback: callback(code)"
Notify(log, code) == IF callback THEN Append(log, code) ELSE log

\* "if message_queue: message_queue.put(...); if callback: callback(CALLBACK_MESSAGE)"
PutMessage(text) == IF message_queue THEN Append(mq, text) ELSE mq
NotifyMessage == IF message_queue THEN Notify(cb_log, CALLBACK_MESSAGE) ELSE cb_log

\* line 245 without its inner min: max(0, booster_amount)
BoosterAmountIgnoringSlots(tc) == Max(0, tc.number_of_boosters_to_test)

\* "callback(code)" is made by thread; overlaps tells whether an invocation made
\* by another thread has not yet returned
Invoked(ctx, thread, overlaps) ==
    IF callback
    THEN [ctx EXCEPT !.callbacks = Append(@, [thread |-> thread, overlaps |-> overlaps])]
    ELSE ctx

\* the callback of the pre-run summary and of the post-run timing
InvokedMessage(ctx, thread) == IF message_queue THEN Invoked(ctx, thread, FALSE) ELSE ctx

\* thread reads or assigns compute()'s local best_result
Used(ctx, thread) == [ctx EXCEPT !.best_result_used_by = @ \cup {thread}]

\* booster_amount = max(0, min(test_case.ship.utility_slots, booster_amount))
BoosterAmount(tc) == Max(0, Min(tc.ship.utility_slots, tc.number_of_boosters_to_test))

\* the chunks of the dispatch loops
ChunkCount == NumChunks(booster_combinations, MP_CHUNK_SIZE)
ChunkAt(j) == Chunk(booster_combinations, MP_CHUNK_SIZE, j)

\* "self.__cpu_cores > 1 and (len(booster_combinations) * len(test_case.loadout_list)) > MP_CHUNK_SIZE * 5"
UsePool(combinations, loadouts) ==
    cpu_cores > 1 /\ Len(combinations) * Len(loadouts) > MP_CHUNK_SIZE * 5

\* every core is given to the pool, none kept for the calling thread
AllCores(cores) == cores

\* multiprocessing.Pool(processes=self.__cpu_cores - 1)
Processes(cores) == cores - 1

Return(kind, why) == [kind |-> kind, why |-> why]

\* Pool.terminate(): the workers are killed, queued tasks and results that the
\* result handler has not yet taken are dropped
Terminate ==
    /\ pool_state' = "TERMINATE"
    /\ taskqueue' = <<>>
    /\ outqueue' = <<>>

\* lines 230-235: reset the flag, return when there is nothing to test
ComputeEnter ==
    /\ pc = "idle"
    /\ cancel_flag' = FALSE
    /\ IF NothingToTest
       THEN /\ pc' = "done"
            /\ ret' = Return("None", "nothing")
       ELSE /\ pc' = "prepare"
            /\ ret' = ret
    /\ UNCHANGED <<test_case, inputs, pool_ref, pool_state, taskqueue, outqueue,
                   booster_combinations, next_chunk, best_result, cpc, cb_log, context, mq,
                   prelim_evals, evaluated, failed, folded, cancel_at>>

\* lines 237-336: the combinations, the pre-filter, the pre-run summary, the
\* empty best_result, and the pool when the work is large enough
ComputePrepare ==
    /\ pc = "prepare"
    /\ LET combinations == combinations_with_replacement(Len(test_case.shield_booster_variants),
                                                         BoosterAmount(test_case))
           f == PreFilter(test_case, prelim)
       IN /\ booster_combinations' = combinations
          /\ prelim_evals' = f.evals
          /\ IF f.error # "none"
             THEN /\ pc' = "done"
                  /\ ret' = Return("raise", f.error)
                  /\ UNCHANGED <<test_case, mq, cb_log, context, pool_state, pool_ref>>
             ELSE /\ test_case' = [test_case EXCEPT !.loadout_list = f.loadout_list]
                  /\ mq' = PutMessage("summary")
                  /\ cb_log' = NotifyMessage
                  /\ context' = [Used(InvokedMessage(context, "compute"), "compute")
                                     EXCEPT !.pool_processes =
                                         IF UsePool(combinations, f.loadout_list)
                                         THEN Processes(cpu_cores) ELSE @]
                  /\ ret' = ret
                  /\ IF UsePool(combinations, f.loadout_list)
                     THEN /\ pool_state' = "RUN"
                          /\ pool_ref' = "pool"
                          /\ pc' = "pool_loop"
                     ELSE /\ pc' = "seq_loop"
                          /\ UNCHANGED <<pool_state, pool_ref>>
    /\ best_result' = EmptyResult
    /\ next_chunk' = 1
    /\ UNCHANGED <<inputs, cancel_flag, taskqueue, outqueue, cpc, evaluated, failed,
                   folded, cancel_at>>

\* lines 337-342: the pool loop finds the flag set and calls
\* callback(CALLBACK_CANCELLED)
PoolDispatchCancelled ==
    /\ pc = "pool_loop"
    /\ next_chunk <= ChunkCount
    /\ CancelObserved
    /\ pool_ref' = "None"
    /\ cb_log' = Notify(cb_log, CALLBACK_CANCELLED)
    /\ context' = Invoked(context, "compute", FALSE)
    /\ pc' = "pool_return"
    /\ UNCHANGED <<test_case, inputs, cancel_flag, pool_state, taskqueue, outqueue,
                   booster_combinations, next_chunk, best_result, ret, cpc, mq,
                   prelim_evals, evaluated, failed, folded, cancel_at>>

\* the callback of line 342 returns; line 343, "return None", and the with
\* statement's exit, which terminates the pool
PoolReturnCancelled ==
    /\ pc = "pool_return"
    /\ Terminate
    /\ pc' = "done"
    /\ ret' = Return("None", "cancelled")
    /\ UNCHANGED <<test_case, inputs, cancel_flag, pool_ref, booster_combinations,
                   next_chunk, best_result, cpc, cb_log, context, mq, prelim_evals, evaluated,
                   failed, folded, cancel_at>>

\* line 338: the pool loop finds the flag clear
PoolDispatchCheck ==
    /\ pc = "pool_loop"
    /\ next_chunk <= ChunkCount
    /\ ~CancelObserved
    /\ pc' = "pool_apply"
    /\ UNCHANGED <<test_case, inputs, cancel_flag, pool_ref, pool_state, taskqueue,
                   outqueue, booster_combinations, next_chunk, best_result, ret, cpc,
                   cb_log, context, mq, prelim_evals, evaluated, failed, folded, cancel_at>>

\* line 344: pool.apply_async; on a pool that is no longer running it raises
\* ValueError("Pool not running"), which leaves compute() through the with statement
PoolApply ==
    /\ pc = "pool_apply"
    /\ IF pool_state = "RUN"
       THEN /\ taskqueue' = Append(taskqueue, next_chunk)
            /\ next_chunk' = next_chunk + 1
            /\ pc' = "pool_loop"
            /\ UNCHANGED <<ret, pool_state, outqueue>>
       ELSE /\ Terminate
            /\ pc' = "done"
            /\ ret' = Return("raise", "ValueError")
            /\ next_chunk' = next_chunk
    /\ UNCHANGED <<test_case, inputs, cancel_flag, pool_ref, booster_combinations,
                   best_result, cpc, cb_log, context, mq, prelim_evals, evaluated, failed,
                   folded, cancel_at>>

\* lines 346-354: the loop is through; pool.close()
PoolClose ==
    /\ pc = "pool_loop"
    /\ next_chunk > ChunkCount
    /\ pool_state' = IF pool_state = "RUN" THEN "CLOSE" ELSE pool_state
    /\ pc' = "pool_join"
    /\ UNCHANGED <<test_case, inputs, cancel_flag, pool_ref, taskqueue, outqueue,
                   booster_combinations, next_chunk, best_result, ret, cpc, cb_log, context, mq,
                   prelim_evals, evaluated, failed, folded, cancel_at>>

\* line 355: pool.join() returns once the pool has drained or was terminated
PoolJoin ==
    /\ pc = "pool_join"
    /\ \/ pool_state = "TERMINATE"
       \/ taskqueue = <<>> /\ outqueue = <<>>
    /\ pc' = "pool_clear"
    /\ UNCHANGED <<test_case, inputs, cancel_flag, pool_ref, pool_state, taskqueue,
                   outqueue, booster_combinations, next_chunk, best_result, ret, cpc,
                   cb_log, context, mq, prelim_evals, evaluated, failed, folded, cancel_at>>

\* line 356, "self.__pool = None", and the with statement's exit
PoolClear ==
    /\ pc = "pool_clear"
    /\ pool_ref' = "None"
    /\ Terminate
    /\ pc' = "final"
    /\ UNCHANGED <<test_case, inputs, cancel_flag, booster_combinations, next_chunk,
                   best_result, ret, cpc, cb_log, context, mq, prelim_evals, evaluated, failed,
                   folded, cancel_at>>

\* lines 358-363: the single-threaded loop finds the flag set
SeqCancelled ==
    /\ pc = "seq_loop"
    /\ next_chunk <= ChunkCount
    /\ CancelObserved
    /\ cb_log' = Notify(cb_log, CALLBACK_CANCELLED)
    /\ context' = Invoked(context, "compute", FALSE)
    /\ pc' = "done"
    /\ ret' = Return("None", "cancelled")
    /\ UNCHANGED <<test_case, inputs, cancel_flag, pool_ref, pool_state, taskqueue,
                   outqueue, booster_combinations, next_chunk, best_result, cpc, mq,
                   prelim_evals, evaluated, failed, folded, cancel_at>>

\* line 359: the single-threaded loop finds the flag clear
SeqCheck ==
    /\ pc = "seq_loop"
    /\ next_chunk <= ChunkCount
    /\ ~CancelObserved
    /\ pc' = "seq_eval"
    /\ UNCHANGED <<test_case, inputs, cancel_flag, pool_ref, pool_state, taskqueue,
                   outqueue, booster_combinations, next_chunk, best_result, ret, cpc,
                   cb_log, context, mq, prelim_evals, evaluated, failed, folded, cancel_at>>

\* lines 364-365: evaluate the chunk in this thread and fold its result
SeqEval ==
    /\ pc = "seq_eval"
    /\ LET r == test_case_fn(test_case, ChunkAt(next_chunk))
       IN /\ evaluated' = evaluated \cup {next_chunk}
          /\ IF r.kind = "raise"
             THEN /\ failed' = failed \cup {next_chunk}
                  /\ pc' = "done"
                  /\ ret' = Return("raise", r.error)
                  /\ UNCHANGED <<best_result, cb_log, context, folded, next_chunk>>
             ELSE /\ best_result' = apply_async_callback(best_result, r.result)
                  /\ cb_log' = Notify(cb_log, CALLBACK_STEP)
                  /\ context' = [Invoked(Used(context, "compute"), "compute", FALSE)
                                     EXCEPT !.loadout_objects =
                                         ObjectsAfterTestCase(@, test_case, ChunkAt(next_chunk))]
                  /\ folded' = Append(folded, next_chunk)
                  /\ next_chunk' = next_chunk + 1
                  /\ pc' = "seq_loop"
                  /\ UNCHANGED <<failed, ret>>
    /\ UNCHANGED <<test_case, inputs, cancel_flag, pool_ref, pool_state, taskqueue,
                   outqueue, booster_combinations, cpc, mq, prelim_evals, cancel_at>>

\* the single-threaded loop is through
SeqDone ==
    /\ pc = "seq_loop"
    /\ next_chunk > ChunkCount
    /\ pc' = "final"
    /\ UNCHANGED <<test_case, inputs, cancel_flag, pool_ref, pool_state, taskqueue,
                   outqueue, booster_combinations, next_chunk, best_result, ret, cpc,
                   cb_log, context, mq, prelim_evals, evaluated, failed, folded, cancel_at>>

\* lines 367-371: the check after the loops finds the flag set
FinalCancelled ==
    /\ pc = "final"
    /\ CancelObserved
    /\ cb_log' = Notify(cb_log, CALLBACK_CANCELLED)
    /\ context' = Invoked(context, "compute", FALSE)
    /\ pc' = "done"
    /\ ret' = Return("None", "cancelled")
    /\ UNCHANGED <<test_case, inputs, cancel_flag, pool_ref, pool_state, taskqueue,
                   outqueue, booster_combinations, next_chunk, best_result, cpc, mq,
                   prelim_evals, evaluated, failed, folded, cancel_at>>

\* lines 373-383: the post-run timing message and "return best_result"
FinalReturn ==
    /\ pc = "final"
    /\ ~CancelObserved
    /\ mq' = PutMessage("timing")
    /\ cb_log' = NotifyMessage
    /\ context' = Used(InvokedMessage(context, "compute"), "compute")
    /\ pc' = "done"
    /\ ret' = Return("TestResult", "done")
    /\ UNCHANGED <<test_case, inputs, cancel_flag, pool_ref, pool_state, taskqueue,
                   outqueue, booster_combinations, next_chunk, best_result, cpc,
                   prelim_evals, evaluated, failed, folded, cancel_at>>

---------------------------------------------------------------------------
(* The pool: its cpu_cores - 1 workers and its result handler thread.      *)

\* A worker finishes a task.  Tasks are taken in queue order by cpu_cores - 1
\* workers, so any of the first cpu_cores - 1 queued tasks may finish next.
\* test_case raising leaves the error in the AsyncResult nobody holds: with no
\* error_callback, nothing is called.
WorkerRun(i) ==
    /\ pool_state \in {"RUN", "CLOSE"}
    /\ i \in 1..Min(Len(taskqueue), context.pool_processes)
    /\ LET chunk == taskqueue[i]
           r == test_case_fn(test_case, ChunkAt(chunk))
       IN /\ taskqueue' = SubSeq(taskqueue, 1, i - 1) \o SubSeq(taskqueue, i + 1, Len(taskqueue))
          /\ evaluated' = evaluated \cup {chunk}
          /\ IF r.kind = "raise"
             THEN /\ failed' = failed \cup {chunk}
                  /\ outqueue' = outqueue
             ELSE /\ failed' = failed
                  /\ outqueue' = Append(outqueue, [chunk |-> chunk, result |-> r.result])
    /\ UNCHANGED <<test_case, inputs, cancel_flag, pool_ref, pool_state, pc,
                   booster_combinations, next_chunk, best_result, ret, cpc, cb_log, context, mq,
                   prelim_evals, folded, cancel_at>>

\* The result handler takes the next result and runs the task's callback,
\* apply_async_callback, in its own thread (Pool._handle_results).  While
\* compute() stands between lines 342 and 343 its own callback invocation may
\* not have returned yet.
ResultHandler ==
    /\ pool_state \in {"RUN", "CLOSE"}
    /\ outqueue # <<>>
    /\ best_result' = apply_async_callback(best_result, Head(outqueue).result)
    /\ cb_log' = Notify(cb_log, CALLBACK_STEP)
    /\ context' = Invoked(Used(context, "result_handler"), "result_handler",
                          pc = "pool_return")
    /\ folded' = Append(folded, Head(outqueue).chunk)
    /\ outqueue' = Tail(outqueue)
    /\ UNCHANGED <<test_case, inputs, cancel_flag, pool_ref, pool_state, taskqueue, pc,
                   booster_combinations, next_chunk, ret, cpc, mq, prelim_evals,
                   evaluated, failed, cancel_at>>

---------------------------------------------------------------------------
(* ShieldTester.cancel, called once from another thread at any moment.     *)

\* line 419: self.__cancel = True
CancelSetFlag ==
    /\ cpc = "idle"
    /\ cancel_flag' = TRUE
    /\ cpc' = "check_pool"
    /\ cancel_at' = [pc |-> pc, dispatched |-> Cardinality(evaluated) + Len(taskqueue)]
    /\ UNCHANGED <<test_case, inputs, pool_ref, pool_state, taskqueue, outqueue, pc,
                   booster_combinations, next_chunk, best_result, ret, cb_log, context, mq,
                   prelim_evals, evaluated, failed, folded>>

\* line 420: if self.__pool:
CancelCheckPool ==
    /\ cpc = "check_pool"
    /\ cpc' = IF pool_ref = "None" THEN "done" ELSE "terminate"
    /\ UNCHANGED <<test_case, inputs, cancel_flag, pool_ref, pool_state, taskqueue,
                   outqueue, pc, booster_combinations, next_chunk, best_result, ret,
                   cb_log, context, mq, prelim_evals, evaluated, failed, folded, cancel_at>>

\* line 421: self.__pool.terminate(); self.__pool is read again, and None has
\* no terminate (AttributeError)
CancelTerminate ==
    /\ cpc = "terminate"
    /\ IF pool_ref = "None"
       THEN /\ cpc' = "raised"
            /\ UNCHANGED <<pool_state, taskqueue, outqueue>>
       ELSE /\ Terminate
            /\ cpc' = "clear"
    /\ UNCHANGED <<test_case, inputs, cancel_flag, pool_ref, pc, booster_combinations,
                   next_chunk, best_result, ret, cb_log, context, mq, prelim_evals, evaluated,
                   failed, folded, cancel_at>>

\* line 422: self.__pool = None
CancelClear ==
    /\ cpc = "clear"
    /\ pool_ref' = "None"
    /\ cpc' = "done"
    /\ UNCHANGED <<test_case, inputs, cancel_flag, pool_state, taskqueue, outqueue, pc,
                   booster_combinations, next_chunk, best_result, ret, cb_log, context, mq,
                   prelim_evals, evaluated, failed, folded, cancel_at>>

---------------------------------------------------------------------------
Next ==
    \/ ComputeEnter
    \/ ComputePrepare
    \/ PoolDispatchCancelled
    \/ PoolReturnCancelled
    \/ PoolDispatchCheck
    \/ PoolApply
    \/ PoolClose
    \/ PoolJoin
    \/ PoolClear
    \/ SeqCancelled
    \/ SeqCheck
    \/ SeqEval
    \/ SeqDone
    \/ FinalCancelled
    \/ FinalReturn
    \/ \E i \in 1..(MaxCores - 1) : WorkerRun(i)
    \/ ResultHandler
    \/ CancelSetFlag
    \/ CancelCheckPool
    \/ CancelTerminate
    \/ CancelClear

Spec == Init /\ [][Next]_vars

---------------------------------------------------------------------------
(* ShieldTester.calculate_number_of_tests (lines 73-90).                   *)

RECURSIVE Factorial(_)
\* math.factorial
Factorial(n) == IF n <= 1 THEN 1 ELSE n * Factorial(n - 1)

\* what an operation yields: a value, or the exception it raises
Returns(value) == [kind |-> "return", value |-> value]
Raises(error) == [kind |-> "raise", error |-> error]

\* prelim as lines 80-85 leave it, without their tests "not prelim or prelim < 1"
PrelimAsGiven(tc, p) == p

\* lines 80-85: "if not prelim or prelim < 1: prelim = len(test_case.loadout_list)"
PrelimOrAll(tc, p) == IF p = 0 \/ p < 1 THEN Len(tc.loadout_list) ELSE p

\* The two divisions of line 88 are float divisions; on the factorials of the
\* model's sizes (and up to 38 variants with 12 boosters) both quotients are
\* integers a float holds exactly, so the integer quotient is what is computed.
calculate_number_of_tests(tc, p) ==
    IF "test_case" \in unset \/ "shield_booster_variants" \in unset
          \/ tc.shield_booster_variants = <<>>
    THEN Returns(0)
    \* len(None)
    ELSE IF "loadout_list" \in unset THEN Raises("TypeError")
    \* math.factorial of a negative number
    ELSE IF tc.number_of_boosters_to_test < 0 THEN Raises("ValueError")
    ELSE LET n == Len(tc.shield_booster_variants)
             k == tc.number_of_boosters_to_test
             result == (Factorial(n + k - 1) \div Factorial(n - 1)) \div Factorial(k)
         IN Returns(result * Min(Len(tc.loadout_list), PrelimOrAll(tc, p)))

\* a caller (the user interface) asks for the estimate of the current request
CallCalculateNumberOfTests ==
    /\ call' = [op |-> "calculate_number_of_tests",
                result |-> calculate_number_of_tests(test_case, prelim)]
    /\ UNCHANGED <<search, tester>>

---------------------------------------------------------------------------
(* The pure operations, called on the requests of Init.                    *)

NextPure ==
    \/ CallCalculateNumberOfTests

SpecPure == Init /\ [][NextPure]_vars

---------------------------------------------------------------------------
(* ShieldTester.load_data, ShieldGenerator.create_from_json and the         *)
(* LoadOuts that ShieldTester.__create_loadouts builds from the loaded      *)
(* generators (LoadOut.__calculate_shield_strength).                        *)

\* a shield generator node of the data file: its mass curve
GeneratorNode(symbol, minmass, optmass, maxmass) ==
    [symbol |-> symbol, minmass |-> minmass, optmass |-> optmass, maxmass |-> maxmass,
     minmul |-> 1, optmul |-> 2, maxmul |-> 3]

\* a well-formed node (minmass < optmass < maxmass), and three malformed ones
GeneratorNodes ==
    { GeneratorNode("good", 1, 2, 3),
      GeneratorNode("maxmass = optmass", 1, 3, 3),
      GeneratorNode("maxmass = minmass", 3, 2, 3),
      GeneratorNode("maxmass = optmass = minmass", 2, 2, 2) }

\* the data files: one or two generator nodes
DataFiles == { <<a>> : a \in GeneratorNodes }
                 \cup { <<a, b>> : a \in GeneratorNodes, b \in GeneratorNodes }

\* ships (StarShip: hull_mass, base_shield_strength) lighter than, on and
\* heavier than the good node's mass curve
Ships == { [hull_mass |-> h, base_shield_strength |-> 10] : h \in 0..4 }

\* ShieldGenerator.create_from_json: the node's values are copied as they are
create_from_json(node) ==
    [symbol |-> node.symbol, minmass |-> node.minmass, optmass |-> node.optmass,
     maxmass |-> node.maxmass, minmul |-> node.minmul, optmul |-> node.optmul,
     maxmul |-> node.maxmul]

\* LoadOut.__calculate_shield_strength.  With a = (optmul - minmul) / (maxmul -
\* minmul) and b = (maxmass - optmass) / (maxmass - minmass) the exponent is
\* log(a) / log(min(1.0, b)).  The model's well-formed curves have a = b, so
\* the exponent is 1 and ynorm = xnorm; pow with another exponent is outside
\* the model.
calculate_shield_strength(sg, ship) ==
    LET span == sg.maxmass - sg.minmass
    IN \* (max_mass - hull_mass) / (max_mass - min_mass)
       IF span = 0 THEN Raises("ZeroDivisionError")
       \* (opt_mul - min_mul) / (max_mul - min_mul), and its log
       ELSE IF sg.maxmul = sg.minmul THEN Raises("ZeroDivisionError")
       ELSE IF (sg.optmul - sg.minmul) * (sg.maxmul - sg.minmul) <= 0 THEN Raises("ValueError")
       \* math.log(min(1.0, b)) of b <= 0
       ELSE IF (sg.maxmass - sg.optmass) * span <= 0 THEN Raises("ValueError")
       \* b >= 1: log(1.0) = 0.0 is the divisor
       ELSE IF (sg.maxmass - sg.optmass) * span >= span * span THEN Raises("ZeroDivisionError")
       ELSE IF (sg.optmul - sg.minmul) * span # (sg.maxmul - sg.minmul) * (sg.maxmass - sg.optmass)
       THEN Returns("exponent other than 1")
       ELSE LET \* xnorm = min(1.0, (max_mass - hull_mass) / span), as a numerator over span
                xnum == IF (sg.maxmass - ship.hull_mass) * span <= span * span
                        THEN sg.maxmass - ship.hull_mass ELSE span
            IN Returns((ship.base_shield_strength
                          * (sg.minmul * span + xnum * (sg.maxmul - sg.minmul)))
                       \* 2 is the float 1.0 of minmul, optmul, maxmul
                       \div (span * 2))

RECURSIVE LoadOuts(_, _, _, _)
\* "for sg in shield_generators: loadouts_to_test.append(LoadOut(sg, test_case.ship))"
LoadOuts(generators, ship, i, built) ==
    IF i > Len(generators) THEN Returns(built)
    ELSE LET strength == calculate_shield_strength(generators[i], ship)
         IN IF strength.kind = "raise" THEN strength
            ELSE LoadOuts(generators, ship, i + 1,
                          Append(built, [shield_generator |-> generators[i],
                                         shield_strength |-> strength.value]))

RECURSIVE LoadGenerators(_, _)
\* load_data's loop over the generator nodes (lines 442-451): each node is
\* made a ShieldGenerator and stored; the engineered variants are copies of
\* it with the same mass curve
LoadGenerators(file, i) ==
    IF i = 0 THEN <<>> ELSE Append(LoadGenerators(file, i - 1), create_from_json(file[i]))

\* load_data(file)
LoadData(file) ==
    /\ tester.load_data = "not called"
    /\ tester' = [tester EXCEPT !.load_data = "returned",
                                !.shield_generators = LoadGenerators(file, Len(file))]
    /\ UNCHANGED <<search, call>>

\* __create_loadouts for a test case of ship, as set_loadouts_for_class calls it
CreateLoadouts(ship) ==
    /\ tester.load_data = "returned"
    /\ tester.create_loadouts.kind = "not called"
    /\ tester' = [tester EXCEPT !.create_loadouts =
                                    LoadOuts(tester.shield_generators, ship, 1, <<>>)]
    /\ UNCHANGED <<search, call>>

NextLoad ==
    \/ \E file \in DataFiles : LoadData(file)
    \/ \E ship \in Ships : CreateLoadouts(ship)

SpecLoad == Init /\ [][NextLoad]_vars

---------------------------------------------------------------------------
(* ShieldBoosterVariant.calculate_booster_bonuses on floats.                *)
(*                                                                         *)
(* The bonuses of the search model above are binary fractions on which     *)
(* every float operation is exact.  The bonuses of a data file (0.2, 0.66, *)
(* 1 - 0.17) are not: each "*=" and "+=" rounds its result to the float's  *)
(* mantissa.  Here a float is [m, e], the number m * 2^e, with a mantissa  *)
(* of MantissaBits bits instead of the 53 of a Python float, rounded to    *)
(* nearest, ties to even, as IEEE 754 does.                                *)

\* bits of a float's mantissa
MantissaBits == 3
\* longest list of boosters passed to calculate_booster_bonuses
MaxListed == 3

RECURSIVE Pow2(_)
Pow2(k) == IF k <= 0 THEN 1 ELSE 2 * Pow2(k - 1)

RECURSIVE ExcessBits(_)
\* how many low bits of m do not fit the mantissa
ExcessBits(m) == IF m < Pow2(MantissaBits) THEN 0 ELSE 1 + ExcessBits(m \div 2)

RECURSIVE Canonical(_, _)
\* the one representation of m * 2^e with m odd (or zero)
Canonical(m, e) ==
    IF m = 0 THEN [m |-> 0, e |-> 0]
    ELSE IF m % 2 = 0 THEN Canonical(m \div 2, e + 1)
    ELSE [m |-> m, e |-> e]

\* the float nearest to m * 2^e, ties to the even mantissa
RoundFloat(m, e) ==
    LET s  == ExcessBits(m)
        q  == Pow2(s)
        d  == m \div q
        r  == m % q
        up == 2 * r > q \/ (2 * r = q /\ d % 2 = 1)
    IN Canonical(IF up THEN d + 1 ELSE d, e + s)

\* a * b, a + b, a - b (for a >= b), a / 2 and a < b on floats
FloatMul(a, b) == RoundFloat(a.m * b.m, a.e + b.e)
FloatAdd(a, b) ==
    LET e == Min(a.e, b.e) IN RoundFloat(a.m * Pow2(a.e - e) + b.m * Pow2(b.e - e), e)
FloatSub(a, b) ==
    LET e == Min(a.e, b.e) IN RoundFloat(a.m * Pow2(a.e - e) - b.m * Pow2(b.e - e), e)
FloatHalf(a) == Canonical(a.m, a.e - 1)
FloatLess(a, b) ==
    LET e == Min(a.e, b.e) IN a.m * Pow2(a.e - e) < b.m * Pow2(b.e - e)

\* the float of the literal 0.7 = n / d (d not a power of two): the quotient to
\* twice the mantissa's bits and a sticky bit, rounded once
FloatDimThreshold ==
    LET n == 7
        d == 10
        k == 2 * MantissaBits + 4
        scaled == n * Pow2(k)
    IN RoundFloat(2 * (scaled \div d) + (IF scaled % d = 0 THEN 0 ELSE 1), -(k + 1))

\* the literal 1.0
FloatOne == Canonical(1, 0)

\* the product left as it is, without the compensation
FloatUncompensated(x) == x

\* "if x_modifier < 0.7: x_modifier = 0.7 - (0.7 - x_modifier) / 2"
FloatCompensate(x) ==
    IF FloatLess(x, FloatDimThreshold)
    THEN FloatSub(FloatDimThreshold, FloatHalf(FloatSub(FloatDimThreshold, x)))
    ELSE x

RECURSIVE FloatBonusLoop(_, _, _)
\* the loop "for booster in boosters" on floats
FloatBonusLoop(acc, boosters, i) ==
    IF i > Len(boosters) THEN acc
    ELSE FloatBonusLoop([exp   |-> FloatMul(acc.exp, boosters[i].exp_res_bonus),
                         kin   |-> FloatMul(acc.kin, boosters[i].kin_res_bonus),
                         therm |-> FloatMul(acc.therm, boosters[i].therm_res_bonus),
                         hp    |-> FloatAdd(acc.hp, boosters[i].shield_strength_bonus)],
                        boosters, i + 1)

\* calculate_booster_bonuses(shield_boosters) on floats
calculate_booster_bonuses_of_floats(boosters) ==
    LET r == FloatBonusLoop([exp |-> FloatOne, kin |-> FloatOne, therm |-> FloatOne,
                             hp |-> FloatOne], boosters, 1)
    IN [exp   |-> FloatCompensate(r.exp),
        kin   |-> FloatCompensate(r.kin),
        therm |-> FloatCompensate(r.therm),
        hp    |-> r.hp]

\* booster variants with float bonuses: +0.75 strength; +0.625 strength;
\* 0.875 of the explosive and kinetic damage and 0.75 of the thermal; 0.625
\* of every damage and +0.25 strength
FloatBoosterLists ==
    LET FloatBoosters == {
      Booster("strength 0.75", FloatOne, FloatOne, FloatOne, Canonical(3, -2)),
      Booster("strength 0.625", FloatOne, FloatOne, FloatOne, Canonical(5, -3)),
      Booster("resistance", Canonical(7, -3), Canonical(7, -3), Canonical(3, -2), Canonical(0, 0)),
      Booster("both", Canonical(5, -3), Canonical(5, -3), Canonical(5, -3), Canonical(1, -2)) }
    \* the lists of at most MaxListed of them
    IN UNION { [1..n -> FloatBoosters] : n \in 0..MaxListed }

\* no search is under way; a list of boosters is at hand
InitBonuses ==
    /\ test_case = MakeTestCase(Profile(0, 0, 0, 0, 0, 0, 0), <<>>, <<>>, 0, MaxBoosters)
    /\ unset = {"test_case"}
    /\ callback = FALSE /\ message_queue = FALSE /\ prelim = 0 /\ cpu_cores = 1
    /\ cancel_flag = FALSE /\ pool_ref = "None" /\ pool_state = "none"
    /\ taskqueue = <<>> /\ outqueue = <<>> /\ pc = "idle"
    /\ booster_combinations = <<>> /\ next_chunk = 1 /\ best_result = EmptyResult
    /\ ret = [kind |-> "pending", why |-> "pending"] /\ cpc = "idle"
    /\ cb_log = <<>> /\ mq = <<>> /\ prelim_evals = 0 /\ evaluated = {}
    /\ failed = {} /\ folded = <<>> /\ cancel_at = NotCancelled
    /\ tester = NewTester
    /\ context = [callbacks |-> <<>>, best_result_used_by |-> {}, loadout_list_set |-> <<>>,
                  loadout_objects |-> <<>>, pool_processes |-> 0]
    /\ \E boosters \in FloatBoosterLists : call = [op |-> "none", shield_boosters |-> boosters]

\* the list in the order perm
Permuted(boosters, perm) == [i \in 1..Len(boosters) |-> boosters[perm[i]]]

\* calculate_booster_bonuses is called on the list and on a permutation of it
CallCalculateBoosterBonuses ==
    /\ call.op = "none"
    /\ \E perm \in Permutations(1..Len(call.shield_boosters)) :
          call' = [op |-> "calculate_booster_bonuses",
                   shield_boosters |-> call.shield_boosters,
                   permuted |-> Permuted(call.shield_boosters, perm),
                   result |-> calculate_booster_bonuses_of_floats(call.shield_boosters),
                   result_permuted |-> calculate_booster_bonuses_of_floats(
                                           Permuted(call.shield_boosters, perm))]
    /\ UNCHANGED <<search, tester>>

NextBonuses == CallCalculateBoosterBonuses

SpecBonuses == InitBonuses /\ [][NextBonuses]_vars

---------------------------------------------------------------------------
(* What the properties below speak about.                                  *)

\* the set of the elements of a sequence
Range(s) == { s[i] : i \in 1..Len(s) }

\* how often code occurs in the callback log
Count(code) == Cardinality({ i \in 1..Len(cb_log) : cb_log[i] = code })

\* the search space of the run: <<loadout position, combination position>>
SearchSpace == (1..Len(test_case.loadout_list)) \X (1..Len(booster_combinations))
BoostersAt(c) == BoostersOf(test_case, booster_combinations[c[2]])
NetDps(c) == ActualDps(test_case, test_case.loadout_list[c[1]],
                       calculate_booster_bonuses(BoostersAt(c)))

\* the chunks in dispatch order
ChunkOrder == [j \in 1..ChunkCount |-> j]

RECURSIVE FoldChunks(_, _)
\* compute()'s best_result after folding the results of the first n chunks of order
FoldChunks(order, n) ==
    IF n = 0 THEN EmptyResult
    ELSE apply_async_callback(FoldChunks(order, n - 1),
                              test_case_fn(test_case, ChunkAt(order[n])).result)

\* the candidates of chunk j in the order test_case visits them: for each
\* combination, every loadout
ChunkCandidates(j) ==
    LET l == Len(test_case.loadout_list)
        c == ChunkAt(j)
    IN [p \in 1..(Len(c) * l) |->
           [boosters |-> BoostersOf(test_case, c[((p - 1) \div l) + 1]),
            loadout  |-> test_case.loadout_list[((p - 1) % l) + 1]]]

RECURSIVE LoopAfter(_, _)
\* test_case's locals after its first p candidates
LoopAfter(cands, p) ==
    IF p = 0 THEN LoopInit
    ELSE CandidateStep(test_case, LoopAfter(cands, p - 1), cands[p].boosters,
                       calculate_booster_bonuses(cands[p].boosters), cands[p].loadout)

\* compute() was handed a missing test case, or missing or empty lists
InputsMissing ==
    \/ unset # {}
    \/ test_case.shield_booster_variants = <<>>
    \/ test_case.loadout_list = <<>>

\* what compute() hands its caller in each of its three outcomes
ValueOf(r) == r.kind

---------------------------------------------------------------------------
(* The properties.                                                         *)

\* C1: when compute() returns a TestResult with prelim = 0 and no
\* cancellation, the result is a pair of the whole search space with the lowest
\* net DPS (up to the 1e-8 tolerance of the comparison) if some pair has a
\* negative net DPS, and otherwise one with the greatest survival time.
C1_BestOfWholeSpace ==
    (pc = "done" /\ ret.kind = "TestResult" /\ prelim = 0
        /\ cancel_at.pc \in {"never", "done"})
        => LET SurvivalTimeAt(c) ==
                   SurvivalTime(test_case,
                                Hitpoints(test_case.loadout_list[c[1]],
                                          calculate_booster_bonuses(BoostersAt(c))),
                                NetDps(c))
           IN \E p \in SearchSpace :
                  /\ best_result.loadout = test_case.loadout_list[p[1]]
                  /\ best_result.boosters = BoostersAt(p)
                  /\ IF \E q \in SearchSpace : NetDps(q) < 0
                     THEN \A q \in SearchSpace :
                              NetDps(p) <= NetDps(q) \/ IsClose(NetDps(p), NetDps(q))
                     ELSE /\ NetDps(p) > 0
                          /\ \A q \in SearchSpace :
                                 NetDps(q) > 0 => FracGe(SurvivalTimeAt(p), SurvivalTimeAt(q))

\* C2: whether or not cancel() interleaves with the run in flight, compute()
\* returns a TestResult only if every chunk was dispatched, evaluated and
\* folded; once it has reported the cancellation it returns no TestResult.
C2_NoPartialResult ==
    /\ (pc = "done" /\ ret.kind = "TestResult" /\ cancel_at.pc # "idle")
           => \A j \in 1..ChunkCount : j \in evaluated /\ j \in Range(folded)
    /\ CALLBACK_CANCELLED \in Range(cb_log) => ret.kind # "TestResult"

\* C3: a cancel() that sets the flag of a run in flight before anything was
\* evaluated or dispatched makes compute(), unless it raised, return the
\* cancelled outcome with no candidate evaluated at all, neither by the
\* pre-filter nor by a chunk.
C3_NoEvaluationAtAll ==
    \* cancel() set the flag right after compute() was entered: before the
    \* pre-filter, before the pool and before any dispatch
    (pc = "done" /\ cancel_at = [pc |-> "prepare", dispatched |-> 0] /\ ret.kind # "raise")
        => /\ ret = Return("None", "cancelled")
           /\ prelim_evals = 0
           /\ evaluated = {}

\* C4: a cancel() that arrives between the creation of the pool and the final
\* cancel check makes compute() return the cancelled outcome, reported exactly
\* once; compute() does not fail.
C4_CancelDuringPool ==
    (pc = "done" /\ pool_state # "none"
        /\ cancel_at.pc \in {"pool_loop", "pool_apply", "pool_join", "pool_clear", "final"})
        => /\ ret = Return("None", "cancelled")
           /\ callback => Count(CALLBACK_CANCELLED) = 1

\* C5: the result of a run whose chunks were folded in chunk order equals the
\* result of evaluating all the combinations as one chunk.
C5_ChunkingInvariance ==
    (pc = "done" /\ ret.kind = "TestResult" /\ folded = ChunkOrder)
        => LET single == test_case_fn(test_case, booster_combinations)
           IN single.kind = "result" /\ best_result = single.result

\* C6: when every chunk's result has been folded, in whatever order they
\* arrived, the final best result is the one that folding them in chunk order
\* gives.
C6_FoldOrderIndependent ==
    (pc = "done" /\ ret.kind = "TestResult" /\ Range(folded) = 1..ChunkCount)
        => best_result = FoldChunks(ChunkOrder, ChunkCount)

\* C7: in the per-chunk fold and in the cross-chunk fold, a candidate with
\* net DPS <= 0 replaces a current best that dies, and a candidate that dies
\* never replaces a current best that survives.
C7_SurvivorDominance ==
    /\ \A j \in evaluated :
         LET cands == ChunkCandidates(j)
         IN \A p \in 1..Len(cands) :
              LET before == LoopAfter(cands, p - 1)
                  after  == LoopAfter(cands, p)
                  dps    == ActualDps(test_case, cands[p].loadout,
                                      calculate_booster_bonuses(cands[p].boosters))
              IN (before.error = "none" /\ before.chosen) =>
                   /\ (dps <= 0 /\ ~FracNeg(before.best_survival_time))
                        => /\ after.error = "none"
                           /\ after.best_loadout = cands[p].loadout
                           /\ after.best_shield_booster_loadout = cands[p].boosters
                   /\ (dps > 0 /\ FracNeg(before.best_survival_time))
                        => after = before
    /\ \A k \in 1..Len(folded) :
         LET before == FoldChunks(folded, k - 1)
             r      == test_case_fn(test_case, ChunkAt(folded[k])).result
             after  == FoldChunks(folded, k)
         IN /\ (k > 1 /\ FracNeg(r.survival_time) /\ ~FracNeg(before.survival_time))
                 => after = r
            /\ (~FracNeg(r.survival_time) /\ FracNeg(before.survival_time))
                 => after = before

\* C8: when the evaluation of a chunk raised, compute() returns no TestResult,
\* and unless it was cancelled it raises.
C8_WorkerFailurePropagates ==
    (pc = "done" /\ failed # {})
        => /\ ret.kind # "TestResult"
           /\ ret.why # "cancelled" => ret.kind = "raise"

\* C9: with a missing test case or a missing or empty list, compute() returns
\* the nothing-to-test outcome without raising, without evaluating anything,
\* without invoking the callback and without writing to the message queue.
C9_NothingToTest ==
    InputsMissing
        => /\ pc \in {"idle", "done"}
           /\ pc = "done" => ret = Return("None", "nothing")
           /\ prelim_evals = 0 /\ evaluated = {} /\ booster_combinations = <<>>
           /\ cb_log = <<>> /\ mq = <<>>

\* C9 witness: compute() has returned on an empty loadout list, with a
\* callback and a message queue supplied.
C9_Witness ==
    /\ pc = "done"
    /\ unset = {}
    /\ test_case.shield_booster_variants # <<>>
    /\ test_case.loadout_list = <<>>
    /\ callback /\ message_queue
    /\ ret = Return("None", "nothing")

\* C10: the value compute() returns tells its three outcomes apart: what it
\* returns when cancelled is neither what it returns when there is nothing to
\* test nor a TestResult.
C10_OutcomesDistinguishable ==
    (pc = "done" /\ ret.why = "cancelled")
        => /\ ValueOf(ret) # ValueOf(Return("TestResult", "done"))
           /\ ValueOf(ret) # ValueOf(Return("None", "nothing"))

---------------------------------------------------------------------------
(* The booster count (lines 243-247).                                      *)

\* the combinations compute() builds for a request
CombinationsOf(tc) ==
    combinations_with_replacement(Len(tc.shield_booster_variants), BoosterAmount(tc))

RECURSIVE FoldInOrder(_, _, _)
\* best_result after folding, in chunk order, the first n chunks of combos
FoldInOrder(tc, combos, n) ==
    IF n = 0 THEN EmptyResult
    ELSE apply_async_callback(FoldInOrder(tc, combos, n - 1),
                              test_case_fn(tc, Chunk(combos, MP_CHUNK_SIZE, n)).result)

\* C11: the search runs over the combinations of clamp(requested, 0, slots)
\* boosters: the winning loadout of a completed search carries exactly that
\* many, and a request for more boosters than the ship has slots builds the
\* combinations, and with its chunks folded in order returns the result, of the
\* request for exactly the slot count.
C11_BoosterCountClamped ==
    LET requested == test_case.number_of_boosters_to_test
        slots == test_case.ship.utility_slots
        clamped == IF requested < 0 THEN 0 ELSE IF requested > slots THEN slots ELSE requested
        \* the request with number_of_boosters_to_test set to the ship's slot count
        exactly == [test_case EXCEPT !.number_of_boosters_to_test = slots]
    IN /\ (pc = "done" /\ ret.kind = "TestResult" /\ best_result.loadout # NoLoadout)
            => Len(best_result.boosters) = clamped
       /\ (pc \notin {"idle", "prepare"} /\ ~InputsMissing)
            => \A i \in 1..Len(booster_combinations) : Len(booster_combinations[i]) = clamped
       /\ (pc \notin {"idle", "prepare"} /\ ~InputsMissing /\ requested > slots)
            => booster_combinations = CombinationsOf(exactly)
       /\ (pc = "done" /\ ret.kind = "TestResult" /\ folded = ChunkOrder /\ requested > slots)
            => best_result = FoldInOrder(exactly, CombinationsOf(exactly),
                                         NumChunks(CombinationsOf(exactly), MP_CHUNK_SIZE))

\* C11 witness: a search asked for more boosters than the ship has slots has
\* completed with every chunk folded, and its winner carries one per slot.
C11_Witness ==
    /\ pc = "done"
    /\ ret.kind = "TestResult"
    /\ test_case.number_of_boosters_to_test > test_case.ship.utility_slots
    /\ folded = ChunkOrder
    /\ best_result.loadout # NoLoadout
    /\ Len(best_result.boosters) = test_case.ship.utility_slots

---------------------------------------------------------------------------
(* The estimate of the number of tests.                                    *)

RECURSIVE Binomial(_, _)
\* C(a, b) by Pascal's rule
Binomial(a, b) ==
    IF b = 0 THEN 1
    ELSE IF a <= 0 THEN 0
    ELSE Binomial(a - 1, b - 1) + Binomial(a - 1, b)

---------------------------------------------------------------------------
(* The order of the callback's invocations.                                *)

\* C13: CALLBACK_CANCELLED is terminal: wherever it stands in the sequence of
\* the callback's invocations it is the last one, so it is delivered at most
\* once and no CALLBACK_STEP or CALLBACK_MESSAGE follows it.
C13_CancelledIsTerminal ==
    \A i \in 1..Len(cb_log) : cb_log[i] = CALLBACK_CANCELLED => i = Len(cb_log)

\* C14: every invocation of the callback is made by the thread that runs
\* compute(), none is made while another is in progress, and no other thread
\* reads or assigns the running best_result.
C14_CoordinatorOnly ==
    /\ \A i \in 1..Len(context.callbacks) :
           /\ context.callbacks[i].thread = "compute"
           /\ ~context.callbacks[i].overlaps
    /\ context.best_result_used_by \subseteq {"compute"}

\* C15: a run of compute() that was never cancelled and has returned its
\* result has invoked the callback with CALLBACK_STEP once per chunk, that is
\* ceil(number of combinations / MP_CHUNK_SIZE) times, and with CALLBACK_MESSAGE
\* twice if a message queue was supplied and never otherwise; every
\* CALLBACK_STEP lies between the two CALLBACK_MESSAGE.
C15_StepsAndMessages ==
    (pc = "done" /\ ret.kind = "TestResult" /\ callback
        /\ cpc = "idle" /\ cancel_at = NotCancelled)
        => /\ Count(CALLBACK_STEP)
                 = (Len(booster_combinations) + MP_CHUNK_SIZE - 1) \div MP_CHUNK_SIZE
           /\ Count(CALLBACK_MESSAGE) = IF message_queue THEN 2 ELSE 0
           /\ message_queue
                 => /\ cb_log[1] = CALLBACK_MESSAGE
                    /\ cb_log[Len(cb_log)] = CALLBACK_MESSAGE
                    /\ Len(mq) = 2

---------------------------------------------------------------------------
(* Net DPS of zero and below.                                              *)

\* C16: every candidate of an evaluated chunk is evaluated without error,
\* those of net DPS <= 0 included, and one of net DPS <= 0 met while the best
\* so far dies becomes the best; the pre-filter raises no error either.
C16_ZeroNetDpsSurvives ==
    /\ \A j \in evaluated :
         LET cands == ChunkCandidates(j)
         IN \A p \in 1..Len(cands) :
              LET before == LoopAfter(cands, p - 1)
                  after  == LoopAfter(cands, p)
                  dps    == ActualDps(test_case, cands[p].loadout,
                                      calculate_booster_bonuses(cands[p].boosters))
              IN /\ after.error = "none"
                 /\ (dps <= 0 /\ ~FracNeg(before.best_survival_time) /\ before.chosen)
                       => after.best_loadout = cands[p].loadout
    /\ ret # Return("raise", "ZeroDivisionError")

---------------------------------------------------------------------------
(* What the returned TestResult says.                                      *)

\* C17: the TestResult a completed compute() returns describes the loadout
\* it names: incoming_dps is the net DPS of that loadout with its boosters
\* under the damage profile, total_hitpoints its hitpoints, and survival_time
\* is (hitpoints + scb_hitpoints + guardian_hitpoints) / that net DPS,
\* whether the net DPS is > 0 or <= 0.
C17_ResultDescribesLoadout ==
    (pc = "done" /\ ret.kind = "TestResult" /\ best_result.loadout # NoLoadout)
        => LET m   == calculate_booster_bonuses(best_result.boosters)
               dps == ActualDps(test_case, best_result.loadout, m)
               hp  == Hitpoints(best_result.loadout, m)
           IN /\ best_result.incoming_dps = dps
              /\ best_result.total_hitpoints = hp
              /\ dps # 0
              /\ best_result.survival_time = SurvivalTime(test_case, hp, dps)

---------------------------------------------------------------------------
(* Loading the data.                                                       *)

\* C18: no shield generator with maxmass = minmass or maxmass = optmass is
\* among the generators load_data has stored: such a definition is refused
\* when the data is loaded, and none is left for the construction of a
\* LoadOut to fail on.
C18_MassCurveValidatedAtLoad ==
    /\ \A i \in 1..Len(tester.shield_generators) :
           LET sg == tester.shield_generators[i]
           IN ~(sg.maxmass = sg.minmass \/ sg.maxmass = sg.optmass)
    /\ tester.create_loadouts.kind # "raise"

---------------------------------------------------------------------------
(* The booster combinations.                                               *)

---------------------------------------------------------------------------
(* The bonuses of a list of boosters.                                      *)

\* C20: calculate_booster_bonuses returns for a permutation of a list of
\* boosters the same four values, the three modifiers and the hitpoint bonus,
\* as for the list itself.
C20_BonusesOrderIndependent ==
    call.op = "calculate_booster_bonuses" => call.result_permuted = call.result


\* ---------------------------------------------------------------------------
\* The compensation for diminishing returns, seen as a map on floats

\* the floats of [0, 1] down to the exponent -(MantissaBits + 2)
FloatGrid ==
    { Canonical(m, -e) : m \in 0..(Pow2(MantissaBits) - 1), e \in 0..(MantissaBits + 2) }
        \cap { x \in [m : 0..(Pow2(MantissaBits) - 1), e : (-(MantissaBits + 2))..MantissaBits] :
                   ~FloatLess(FloatOne, x) }

\* the three products and the sum as the loop leaves them, before the compensation
Products(boosters) ==
    FloatBonusLoop([exp |-> FloatOne, kin |-> FloatOne, therm |-> FloatOne, hp |-> FloatOne],
                   boosters, 1)

\* C21 (as stated): the remap applied to each per-axis product is strictly
\* increasing over the whole range (a smaller product gives a smaller modifier,
\* a greater product a greater one), leaves 0.7 where it is, and never returns
\* less than 0.35 for a product of [0, 1].
C21_RemapStrictlyIncreasing ==
    call.op = "calculate_booster_bonuses" =>
        \A axis \in {"exp", "kin", "therm"} :
            LET p == Products(call.shield_boosters)[axis]
            IN /\ \A q \in FloatGrid :
                      /\ FloatLess(q, p) => FloatLess(FloatCompensate(q), call.result[axis])
                      /\ FloatLess(p, q) => FloatLess(call.result[axis], FloatCompensate(q))
               /\ (p = FloatDimThreshold => call.result[axis] = FloatDimThreshold)
               /\ ~FloatLess(call.result[axis], FloatHalf(FloatDimThreshold))

\* C21 (amended): the remap applied to each per-axis product never reverses an
\* order (a smaller product never gives a greater modifier), leaves 0.7 where
\* it is, never returns less than 0.35 for a product of [0, 1] and never less
\* than the product itself.
C21_RemapNonDecreasing ==
    call.op = "calculate_booster_bonuses" =>
        \A axis \in {"exp", "kin", "therm"} :
            LET p == Products(call.shield_boosters)[axis]
            IN /\ \A q \in FloatGrid :
                      /\ FloatLess(q, p) => ~FloatLess(call.result[axis], FloatCompensate(q))
                      /\ FloatLess(p, q) => ~FloatLess(FloatCompensate(q), call.result[axis])
               /\ (p = FloatDimThreshold => call.result[axis] = FloatDimThreshold)
               /\ ~FloatLess(call.result[axis], FloatHalf(FloatDimThreshold))
               /\ ~FloatLess(call.result[axis], p)

\* a product below 0.7 was raised by the compensation, and a smaller product
\* of the grid is raised to a smaller modifier
C21_Witness ==
    /\ call.op = "calculate_booster_bonuses"
    /\ \E axis \in {"exp", "kin", "therm"} :
          LET p == Products(call.shield_boosters)[axis]
          IN /\ FloatLess(p, FloatDimThreshold)
             /\ FloatLess(p, call.result[axis])
             /\ \E q \in FloatGrid : /\ FloatLess(q, p)
                                     /\ FloatLess(FloatCompensate(q), call.result[axis])


\* ---------------------------------------------------------------------------
\* The preliminary filtering

\* the loadout_list the test case held when compute() was called
GivenLoadouts == context.loadout_list_set

\* the test case as compute() was given it
GivenTestCase == [test_case EXCEPT !.loadout_list = GivenLoadouts]

\* actual_dps of the pre-filter's loop: the loadout without boosters
UnboostedDps(loadout) == ActualDps(test_case, loadout, Unity)

\* the loadouts appended to preliminary_list_survived
Survivors == { l \in Range(GivenLoadouts) : UnboostedDps(l) < 0 }

\* compute() is past its pre-filter, which ran over every loadout: the
\* condition of line 255 held and no division of line 275 was by zero
PreFilterRan ==
    /\ pc \notin {"idle", "prepare"}
    /\ ret # Return("None", "nothing")
    /\ PrelimApplies(GivenTestCase, prelim)
    /\ \A l \in Range(GivenLoadouts) : UnboostedDps(l) # 0

\* the loadouts of the new test_case.loadout_list
Kept == Range(test_case.loadout_list)

\* C22: when the pre-filter ran and some loadout has an unboosted net DPS
\* below 0, the new loadout_list is made of the (at most prelim) surviving
\* loadouts of lowest net DPS, and of two survivors of equal net DPS the one
\* with more hitpoints is kept in preference to the one with fewer.
C22_SurvivorsKept ==
    (PreFilterRan /\ Survivors # {}) =>
        /\ Len(test_case.loadout_list) = Min(prelim, Cardinality(Survivors))
        /\ Cardinality(Kept) = Len(test_case.loadout_list)
        /\ Kept \subseteq Survivors
        /\ \A x \in Kept : \A y \in Survivors \ Kept :
               \/ UnboostedDps(x) < UnboostedDps(y)
               \/ UnboostedDps(x) = UnboostedDps(y) /\ Hitpoints(x, Unity) >= Hitpoints(y, Unity)


\* survival_time of the pre-filter's loop, for a loadout of positive net DPS
UnboostedSurvivalTime(loadout) ==
    SurvivalTime(test_case, Hitpoints(loadout, Unity), UnboostedDps(loadout))

\* C23: when the pre-filter ran and no loadout survives unboosted (every one
\* has a positive net DPS), the new loadout_list is made of exactly
\* min(prelim, L) of the L given loadouts, and every kept loadout has an
\* unboosted survival time greater than or equal to that of every dropped one.
C23_LongestLivedKept ==
    (PreFilterRan /\ \A l \in Range(GivenLoadouts) : UnboostedDps(l) > 0) =>
        /\ Len(test_case.loadout_list) = Min(prelim, Len(GivenLoadouts))
        /\ Cardinality(Kept) = Len(test_case.loadout_list)
        /\ Kept \subseteq Range(GivenLoadouts)
        /\ \A x \in Kept : \A y \in Range(GivenLoadouts) \ Kept :
               FracGe(UnboostedSurvivalTime(x), UnboostedSurvivalTime(y))

\* the pre-filter ran on loadouts that all die, dropped one of them, and the
\* first loadout of the given list is among the dropped
C23_Witness ==
    /\ PreFilterRan
    /\ \A l \in Range(GivenLoadouts) : UnboostedDps(l) > 0
    /\ Len(test_case.loadout_list) = prelim
    /\ GivenLoadouts[1] \notin Kept
    /\ \E x \in Kept : FracGt(UnboostedSurvivalTime(x), UnboostedSurvivalTime(GivenLoadouts[1]))


\* C24: the pre-filter applies only when 0 < prelim < number of loadouts: when
\* prelim <= 0 or prelim >= the number of loadouts, compute() leaves
\* test_case.loadout_list as it was given (same loadouts, same order), so the
\* search covers every given loadout.  (compute() is past the place of its
\* pre-filter once it has left "prepare" without returning for want of input.)
C24_NoFilterOutsideRange ==
    (/\ pc \notin {"idle", "prepare"}
     /\ ret # Return("None", "nothing")
     /\ (prelim <= 0 \/ prelim >= Len(GivenLoadouts))) =>
        test_case.loadout_list = GivenLoadouts


\* ---------------------------------------------------------------------------
\* The request during the sweep

\* C25: evaluating a chunk does not change the shared request: a step that
\* runs TestCase.test_case on a chunk leaves test_case.loadout_list and
\* test_case.shield_booster_variants as they were, and the attribute boosters
\* of every loadout of the request is still unset; the winning boosters are
\* attached to a private copy of the winning loadout only.
C25_RequestUnchangedByEvaluation ==
    [][evaluated' # evaluated =>
           /\ test_case' = test_case
           /\ context'.loadout_objects = context.loadout_objects
           /\ \A i \in 1..Len(context'.loadout_objects) :
                  context'.loadout_objects[i].boosters = None]_vars

\* two chunks were evaluated in the calling thread, the fold holds a result
\* with boosters attached, and the loadouts of the request have none
C25_Witness ==
    /\ Cardinality(evaluated) >= 2
    /\ Len(folded) >= 2
    /\ pool_state = "none"
    /\ best_result.loadout # NoLoadout
    /\ best_result.boosters # <<>>
    /\ context.loadout_objects # <<>>
    /\ \A i \in 1..Len(context.loadout_objects) : context.loadout_objects[i].boosters = None


\* ---------------------------------------------------------------------------
\* set_loadouts_for_class: the loadouts of one class of shield generators

\* the module classes of the data file go from 1 to MaxClass
MaxClass == 3

\* the keys of the data file's "modules" node, in the order __create_loadouts
\* reads them
TYPE_BIWEAVE == "bi-weave"
TYPE_NORMAL == "normal"
TYPE_PRISMATIC == "prismatic"

\* a generator node of type t and class c; the mass curve grows with the
\* class (minmass c, optmass 2c, maxmass 3c) and is well-formed
ClassNode(t, c) == [symbol |-> t, class |-> c, minmass |-> c, optmass |-> 2 * c, maxmass |-> 3 * c, minmul |-> 1, optmul |-> 2, maxmul |-> 3]

\* the "modules" nodes: every type lists the same classes, in ascending or in
\* descending order
ModulesNodes ==
    LET ClassesListed(classes, k, ascending) ==
            IF ascending
            THEN CHOOSE c \in classes : Cardinality({d \in classes : d < c}) = k - 1
            ELSE CHOOSE c \in classes : Cardinality({d \in classes : d > c}) = k - 1
    IN
    { [t \in {TYPE_BIWEAVE, TYPE_NORMAL, TYPE_PRISMATIC} |->
          [k \in 1..Cardinality(classes) |-> ClassNode(t, ClassesListed(classes, k, ascending))]] :
      classes \in (SUBSET (1..MaxClass)) \ {{}}, ascending \in BOOLEAN }

\* ShieldGenerator.create_from_json, with the class: generator.module_class =
\* json_generator["class"]
create_generator_from_json(node) ==
    [symbol |-> node.symbol, module_class |-> node.class, minmass |-> node.minmass,
     optmass |-> node.optmass, maxmass |-> node.maxmass, minmul |-> node.minmul,
     optmul |-> node.optmul, maxmul |-> node.maxmul, engineered_symbol |-> ""]

\* the blueprints of the data file
Blueprints == <<"reinforced", "thermal resistant">>

\* create_engineered_shield_generators: one deep copy of the prototype for
\* each blueprint (their strength is left as the prototype's)
create_engineered_shield_generators(prototype) ==
    [b \in 1..Len(Blueprints) |-> [prototype EXCEPT !.engineered_symbol = Blueprints[b]]]

\* load_data's loop over one type's list: sg_type_dict.setdefault(
\* generator.module_class, generator_variants), the first node of a class wins;
\* self.__shield_generators after load_data
ShieldGenerators(modules) ==
    [t \in DOMAIN modules |->
        LET nodes == modules[t]
        IN [c \in { nodes[k].class : k \in 1..Len(nodes) } |->
               LET first == CHOOSE k \in 1..Len(nodes) :
                                /\ nodes[k].class = c
                                /\ \A j \in 1..(k - 1) : nodes[j].class # c
               IN create_engineered_shield_generators(create_generator_from_json(nodes[first]))]]

\* a ship: the internal slots that are not military, as (slot, class) pairs in
\* the order of the slot numbers
\* light and heavy ships with slots of class 3 and 2, of class 2 and 1, of
\* class 1, a ship whose class 3 slot is military, and a ship too heavy for
\* every generator
ClassShips ==
    LET ShipWithSlots(hull_mass, highest_internal, internal_slot_layout) ==
            [hull_mass |-> hull_mass, base_shield_strength |-> 10,
             highest_internal |-> highest_internal,
             internal_slot_layout |-> internal_slot_layout]
    IN
    { ShipWithSlots(2, 3, << <<1, 3>>, <<2, 2>> >>),
      ShipWithSlots(5, 3, << <<1, 3>>, <<2, 2>> >>),
      ShipWithSlots(2, 2, << <<1, 2>>, <<2, 1>> >>),
      ShipWithSlots(5, 2, << <<1, 1>>, <<2, 2>> >>),
      ShipWithSlots(2, 1, << <<1, 1>> >>),
      ShipWithSlots(2, 3, << <<2, 2>> >>),
      ShipWithSlots(20, 3, << <<1, 3>>, <<2, 2>> >>) }

RECURSIVE get_available_internal_slot(_, _, _)
\* StarShip.get_available_internal_slot(module_class), from the k-th item on
get_available_internal_slot(ship, module_class, k) ==
    IF k > Len(ship.internal_slot_layout) THEN <<0, 0>>
    ELSE IF ship.internal_slot_layout[k][2] >= Min(module_class, ship.highest_internal)
         THEN ship.internal_slot_layout[k]
         ELSE get_available_internal_slot(ship, module_class, k + 1)

\* get_compatible_shield_generator_classes(ship): (min class, max class)
get_compatible_shield_generator_classes(generators, ship) ==
    LET sg_classes == DOMAIN generators[TYPE_NORMAL]
        fitting == { c \in sg_classes : generators[TYPE_NORMAL][c][1].maxmass > ship.hull_mass }
        min_class == IF fitting = {} THEN 0
                     ELSE CHOOSE c \in fitting : \A d \in fitting : c <= d
        max_free_slot == get_available_internal_slot(ship, ship.highest_internal, 1)[2]
    IN IF min_class # 0 /\ min_class <= max_free_slot
       THEN <<min_class, max_free_slot>>
       ELSE <<0, 0>>

\* the class asked for, whatever the range
ClassAsAsked(module_class, min_class, max_class) == module_class

\* sg_class = module_class if module_class in range(min_class, max_class + 1) else max_class
ClassToUse(module_class, min_class, max_class) ==
    IF module_class \in min_class..max_class THEN module_class ELSE max_class

\* __create_loadouts(test_case, module_class, prismatics) for module_class > 0
create_loadouts(generators, ship, module_class, prismatics) ==
    IF \E t \in (IF prismatics THEN {TYPE_BIWEAVE, TYPE_NORMAL, TYPE_PRISMATIC} ELSE {TYPE_BIWEAVE, TYPE_NORMAL}) :
           module_class \notin DOMAIN generators[t]
    THEN Raises("KeyError")
    ELSE LoadOuts(generators[TYPE_BIWEAVE][module_class] \o generators[TYPE_NORMAL][module_class]
                     \o (IF prismatics THEN generators[TYPE_PRISMATIC][module_class] ELSE <<>>),
                  ship, 1, <<>>)

\* set_loadouts_for_class(test_case, module_class, prismatics): the call's
\* outcome and test_case.loadout_list after it
set_loadouts_for_class(generators, ship, loadout_list, module_class, prismatics) ==
    LET classes  == get_compatible_shield_generator_classes(generators, ship)
        sg_class == ClassToUse(module_class, classes[1], classes[2])
    IN IF sg_class > 0
       THEN LET created == create_loadouts(generators, ship, sg_class, prismatics)
            IN IF created.kind = "raise"
               THEN [outcome |-> created, loadout_list |-> loadout_list]
               ELSE [outcome |-> Returns("None"), loadout_list |-> created.value]
       ELSE [outcome |-> Returns("None"), loadout_list |-> loadout_list]

\* no search is under way; a test case of some ship holds no loadouts or
\* earlier ones; no data is loaded
InitClass ==
    /\ test_case = MakeTestCase(Profile(0, 0, 0, 0, 0, 0, 0), <<>>, <<>>, 0, MaxBoosters)
    /\ unset = {"test_case"}
    /\ callback = FALSE /\ message_queue = FALSE /\ prelim = 0 /\ cpu_cores = 1
    /\ cancel_flag = FALSE /\ pool_ref = "None" /\ pool_state = "none"
    /\ taskqueue = <<>> /\ outqueue = <<>> /\ pc = "idle"
    /\ booster_combinations = <<>> /\ next_chunk = 1 /\ best_result = EmptyResult
    /\ ret = [kind |-> "pending", why |-> "pending"] /\ cpc = "idle"
    /\ cb_log = <<>> /\ mq = <<>> /\ prelim_evals = 0 /\ evaluated = {}
    /\ failed = {} /\ folded = <<>> /\ cancel_at = NotCancelled
    /\ tester = NewTester
    /\ context = [callbacks |-> <<>>, best_result_used_by |-> {}, loadout_list_set |-> <<>>,
                  loadout_objects |-> <<>>, pool_processes |-> 0]
    \* test_case.loadout_list: empty, or set by an earlier call
    /\ \E ship \in ClassShips,
          loadout_list \in {<<>>, << [shield_generator |-> create_generator_from_json(ClassNode(TYPE_NORMAL, 1)),
                                       shield_strength |-> 10] >>} :
           call = [op |-> "none", ship |-> ship, loadout_list |-> loadout_list]

\* load_data(file), the shield generators of the file
LoadShieldGenerators(modules) ==
    /\ tester.load_data = "not called"
    /\ tester' = [tester EXCEPT !.load_data = "returned",
                                !.shield_generators = ShieldGenerators(modules)]
    /\ UNCHANGED <<search, call>>

\* set_loadouts_for_class(test_case, module_class, prismatics)
SetLoadoutsForClass(module_class, prismatics) ==
    /\ tester.load_data = "returned"
    /\ call.op = "none"
    /\ LET r == set_loadouts_for_class(tester.shield_generators, call.ship, call.loadout_list,
                                       module_class, prismatics)
       IN call' = [op |-> "set_loadouts_for_class", ship |-> call.ship,
                   loadout_list_before |-> call.loadout_list,
                   module_class |-> module_class, prismatics |-> prismatics,
                   outcome |-> r.outcome, loadout_list |-> r.loadout_list]
    /\ UNCHANGED <<search, tester>>

NextClass ==
    \/ \E modules \in ModulesNodes : LoadShieldGenerators(modules)
    \/ \E module_class \in 0..(MaxClass + 1), prismatics \in BOOLEAN :
           SetLoadoutsForClass(module_class, prismatics)

SpecClass == InitClass /\ [][NextClass]_vars

\* C26: after set_loadouts_for_class(test_case, module_class, prismatics) on a
\* ship with the compatible class range [min, max], every loadout of
\* test_case.loadout_list has the same generator class: module_class when
\* min <= module_class <= max, max otherwise; the list holds prismatic
\* generators only when prismatics is true; on a ship with no compatible class
\* the loadout_list is left as it was.
C26_LoadoutsOfOneClass ==
    (call.op = "set_loadouts_for_class" /\ call.outcome.kind = "return") =>
        LET classes == get_compatible_shield_generator_classes(tester.shield_generators, call.ship)
            expected == IF classes[1] <= call.module_class /\ call.module_class <= classes[2]
                        THEN call.module_class ELSE classes[2]
        IN IF classes = <<0, 0>>
           THEN call.loadout_list = call.loadout_list_before
           ELSE /\ call.loadout_list # <<>>
                /\ \A i \in 1..Len(call.loadout_list) :
                       call.loadout_list[i].shield_generator.module_class = expected
                /\ (\E i \in 1..Len(call.loadout_list) :
                        call.loadout_list[i].shield_generator.symbol = TYPE_PRISMATIC)
                       => call.prismatics

\* a class outside the ship's range [2, 3] was asked for, without prismatics:
\* the earlier list was replaced by loadouts of class 3, none prismatic
C26_Witness ==
    /\ call.op = "set_loadouts_for_class"
    /\ call.outcome.kind = "return"
    /\ get_compatible_shield_generator_classes(tester.shield_generators, call.ship) = <<2, 3>>
    /\ call.module_class = 1
    /\ ~call.prismatics
    /\ call.loadout_list_before # <<>>
    /\ Len(call.loadout_list) = 2 * Len(Blueprints)
    /\ \A i \in 1..Len(call.loadout_list) :
           /\ call.loadout_list[i].shield_generator.module_class = 3
           /\ call.loadout_list[i].shield_generator.symbol # TYPE_PRISMATIC


\* ---------------------------------------------------------------------------
\* The pool and the calling thread

\* the work of the sweep: len(booster_combinations) * len(test_case.loadout_list)
Work == Len(booster_combinations) * Len(test_case.loadout_list)

\* C27: compute() creates a pool only when cpu_cores > 1 and the number of
\* booster combinations times the number of loadouts exceeds 5 * MP_CHUNK_SIZE,
\* and then with exactly cpu_cores - 1 >= 1 workers; otherwise no task is ever
\* given to a worker and a completed search evaluated every chunk in the
\* calling thread.  cpu_cores is within [1, os.cpu_count()] whatever value
\* was assigned to it.
C27_PoolOnlyForLargeWork ==
    /\ cpu_cores >= 1 /\ cpu_cores <= MaxCores
    /\ pool_state # "none" =>
           /\ cpu_cores > 1
           /\ Work > 5 * MP_CHUNK_SIZE
           /\ context.pool_processes = cpu_cores - 1
           /\ context.pool_processes >= 1
    /\ pc \in {"pool_loop", "pool_apply", "pool_return", "pool_join", "pool_clear"} =>
           pool_state # "none"
    /\ pc \in {"seq_loop", "seq_eval"} => ~(cpu_cores > 1 /\ Work > 5 * MP_CHUNK_SIZE)
    /\ pool_state = "none" =>
           /\ taskqueue = <<>> /\ outqueue = <<>>
           /\ context.pool_processes = 0
           /\ ret = Return("TestResult", "done") =>
                  /\ evaluated = 1..ChunkCount
                  /\ Range(folded) = evaluated

\* a pool of os.cpu_count() - 1 workers is at work on a sweep of more than
\* 5 * MP_CHUNK_SIZE evaluations, and a worker has evaluated a chunk
C27_Witness ==
    /\ pool_state = "RUN"
    /\ cpu_cores = MaxCores
    /\ context.pool_processes = MaxCores - 1
    /\ Work > 5 * MP_CHUNK_SIZE
    /\ evaluated # {}


\* ---------------------------------------------------------------------------
\* Two searches on the same TestCase, each run to its end in the calling
\* thread (cpu_cores = 1); cancel() may set the flag before any of the polls.

\* the list put back as it was given
Restored(given, filtered) == given

\* test_case.loadout_list when compute() returns: lines 291 and 294 assign the
\* filtered list to the caller's TestCase and nothing assigns it again
ListAfterCompute(given, filtered) == filtered

RECURSIVE SequentialLoop(_, _, _, _, _)
\* lines 359-383 from the k-th chunk on: the poll of the flag, test_case,
\* apply_async_callback; after the last chunk the final poll.  seen is the
\* number of the poll that finds the flag set (0: none does).
SequentialLoop(tc, combos, k, best, seen) ==
    IF seen = k THEN [test_case |-> tc, ret |-> Return("None", "cancelled"), best_result |-> best]
    ELSE IF k > NumChunks(combos, MP_CHUNK_SIZE)
    THEN [test_case |-> tc, ret |-> Return("TestResult", "done"), best_result |-> best]
    ELSE LET r == test_case_fn(tc, Chunk(combos, MP_CHUNK_SIZE, k))
         IN IF r.kind = "raise"
            THEN [test_case |-> tc, ret |-> Return("raise", r.error), best_result |-> best]
            ELSE SequentialLoop(tc, combos, k + 1, apply_async_callback(best, r.result), seen)

\* compute(tc, prelim=p) in the calling thread: the TestCase it leaves, what
\* it returns or raises, and its best_result
compute_in_calling_thread(tc, p, seen) ==
    IF tc.shield_booster_variants = <<>> \/ tc.loadout_list = <<>>
    THEN [test_case |-> tc, ret |-> Return("None", "nothing"), best_result |-> EmptyResult]
    ELSE LET f == PreFilter(tc, p)
         IN IF f.error # "none"
            THEN [test_case |-> tc, ret |-> Return("raise", f.error), best_result |-> EmptyResult]
            ELSE LET filtered == [tc EXCEPT !.loadout_list =
                                      ListAfterCompute(tc.loadout_list, f.loadout_list)]
                 IN SequentialLoop(filtered, CombinationsOf(filtered), 1, EmptyResult, seen)

\* a ShieldTester of one core and a TestCase with boosters and loadouts; the
\* first search is asked with a positive prelim
InitRepeat ==
    /\ \E p \in Profiles, boosters \in BoosterLists \ {<<>>}, loadouts \in LoadoutLists \ {<<>>} :
         \E n \in 0..MaxBoosters :
           test_case = MakeTestCase(p, boosters, loadouts, n, MaxBoosters)
    /\ unset = {}
    /\ callback = FALSE /\ message_queue = FALSE /\ cpu_cores = 1
    /\ prelim \in 1..MaxPrelim
    /\ cancel_flag = FALSE /\ pool_ref = "None" /\ pool_state = "none"
    /\ taskqueue = <<>> /\ outqueue = <<>> /\ pc = "idle"
    /\ booster_combinations = <<>> /\ next_chunk = 1 /\ best_result = EmptyResult
    /\ ret = [kind |-> "pending", why |-> "pending"] /\ cpc = "idle"
    /\ cb_log = <<>> /\ mq = <<>> /\ prelim_evals = 0 /\ evaluated = {}
    /\ failed = {} /\ folded = <<>> /\ cancel_at = NotCancelled
    /\ tester = NewTester
    /\ context = [callbacks |-> <<>>, best_result_used_by |-> {},
                  loadout_list_set |-> test_case.loadout_list,
                  loadout_objects |-> NewObjects(test_case.loadout_list), pool_processes |-> 0]
    /\ call = [op |-> "none"]

\* the variables compute() run as one step leaves alone
idle == <<unset, callback, message_queue, prelim, cpu_cores, cancel_flag, pool_ref, pool_state, taskqueue, outqueue, pc, booster_combinations, next_chunk, best_result, ret, cpc, cb_log, mq, prelim_evals, evaluated, failed, folded, cancel_at, tester, context>>

\* compute(test_case, prelim=prelim), completed or cancelled
ComputeFiltered(seen) ==
    /\ call.op = "none"
    \* the polls of the flag: one before each chunk, one after
    /\ seen \in 0..(NumChunks(CombinationsOf(test_case), MP_CHUNK_SIZE) + 1)
    /\ LET r == compute_in_calling_thread(test_case, prelim, seen)
       IN /\ test_case' = r.test_case
          /\ call' = [op |-> "compute", ret |-> r.ret, best_result |-> r.best_result]
    /\ UNCHANGED idle

\* then compute(test_case, prelim=0), not cancelled
ComputeFull ==
    /\ call.op = "compute"
    /\ LET r == compute_in_calling_thread(test_case, 0, 0)
       IN /\ test_case' = r.test_case
          /\ call' = [op |-> "compute again", first |-> call.ret,
                      ret |-> r.ret, best_result |-> r.best_result]
    /\ UNCHANGED idle

\* the largest number of polls of a search
MaxPolls == 8

NextRepeat ==
    \/ \E seen \in 0..MaxPolls : ComputeFiltered(seen)
    \/ ComputeFull

SpecRepeat == InitRepeat /\ [][NextRepeat]_vars

\* compute(prelim=0) on the TestCase as set_loadouts_for_class left it
FreshFullSearch == compute_in_calling_thread(GivenTestCase, 0, 0)

\* C28 (as stated): a full search is not affected by an earlier pre-filtered
\* compute() (completed or cancelled) on the same TestCase: it searches
\* every loadout set_loadouts_for_class placed in the test case and returns
\* what it returns with no earlier search.
C28_FullSearchUnaffected ==
    call.op = "compute again" =>
        /\ test_case.loadout_list = GivenLoadouts
        /\ call.ret = FreshFullSearch.ret
        /\ call.best_result = FreshFullSearch.best_result

\* the earlier compute() ran its pre-filter to the end
EarlierFiltered ==
    /\ PrelimApplies(GivenTestCase, prelim)
    /\ \A l \in Range(GivenLoadouts) : UnboostedDps(l) # 0

\* C28 (amended): a full search after a pre-filtered compute() (completed or
\* cancelled) on the same TestCase searches the loadouts the pre-filter
\* kept, at most prelim of those set_loadouts_for_class placed when some
\* loadout survives unboosted or prelim is below their number, and its result
\* is one of them; it searches every loadout and returns what it returns
\* with no earlier search only when the earlier compute() did not filter.
C28_FullSearchOfKeptLoadouts ==
    call.op = "compute again" =>
        IF EarlierFiltered
        THEN /\ Kept \subseteq Range(GivenLoadouts)
             /\ Kept # {}
             /\ (Survivors # {} \/ prelim < Len(GivenLoadouts)) =>
                    Len(test_case.loadout_list) <= prelim
             /\ Survivors # {} => Kept \subseteq Survivors
             /\ call.ret = Return("TestResult", "done") => call.best_result.loadout \in Kept
        ELSE /\ test_case.loadout_list = GivenLoadouts
             /\ call.ret = FreshFullSearch.ret
             /\ call.best_result = FreshFullSearch.best_result

\* a cancelled pre-filtered compute() dropped a loadout, and the full search
\* after it returned a result other than the one of a fresh full search
C28_Witness ==
    /\ call.op = "compute again"
    /\ call.first = Return("None", "cancelled")
    /\ EarlierFiltered
    /\ Len(test_case.loadout_list) < Len(GivenLoadouts)
    /\ call.ret = Return("TestResult", "done")
    /\ FreshFullSearch.ret = Return("TestResult", "done")
    /\ call.best_result # FreshFullSearch.best_result


\* ---------------------------------------------------------------------------
\* cancel() beside compute()

\* C29: cancel() may be called from another thread at any moment and always
\* completes without error; after both cancel() and compute() have returned
\* the tester holds no pool handle.
C29_CancelAlwaysSafe ==
    /\ cpc # "raised"
    /\ (cpc \in {"done", "raised"} /\ pc = "done") => pool_ref = "None"


\* ---------------------------------------------------------------------------
\* The estimate and the sweep

\* C30: for every TestCase and prelim, calculate_number_of_tests(test_case,
\* prelim) on the test case as compute() is given it equals the number of
\* (loadout, booster combination) evaluations of the full sweep of a completed
\* compute(test_case, prelim=prelim): the number of booster combinations
\* enumerated times the number of loadouts left after the pre-filter.
C30_EstimateMatchesSweep ==
    (pc = "done" /\ ret = Return("TestResult", "done")) =>
        calculate_number_of_tests(GivenTestCase, prelim) = Returns(Work)

=============================================================================
